---- MODULE Spec2Model ----
(***************************************************************************)
(* Gardi: working-timetable reconciliation and filter engine.              *)
(*                                                                         *)
(* The TimeTable aggregate (gardi/core/models.py) and the FilterEngine     *)
(* (gardi/core/filters.py) as state machines.  The specifications share   *)
(* the variables:                                                          *)
(*   SpecFilter    - Gardi.generate_visualization: reset + filter passes   *)
(*   SpecValidate  - TimeTable.validateRakeCycles                          *)
(*   SpecLink      - TimeTable.makeRakeCyclePathsSV, statement by statement*)
(*   SpecSession   - assignRakes, visualizations and convert_to_ac         *)
(*   SpecTime      - StationEvent._timeToMinutes                           *)
(*   SpecEvents    - generateRakeCycles: events and durations              *)
(*   SpecResolve   - generateRakeCycles: stubs matched to chains, fixPath  *)
(*   SpecPipeline  - one ingestion, from registerServices to the first pass*)
(*   SpecQuery     - Gardi.switch_filter_mode and the edits of the query   *)
(***************************************************************************)
EXTENDS Integers, Sequences, FiniteSets, TLC

VARIABLES
    suburbanServices,  \* TimeTable.suburbanServices: index -> Service record
    rakecycles,        \* TimeTable.rakecycles: sequence of RakeCycle records
    conflictingLinks,  \* TimeTable.conflictingLinks: sequence of (cycle, wttPath)
    allCyclesWtt,      \* TimeTable.allCyclesWtt: sequence of chains
    query,             \* Gardi.query: the FilterQuery of the last pass
    pc,                \* position of the running operation
    err,               \* "" or the name of the exception the operation raised
    passes,            \* filter passes completed (capped at 2)
    firstFlags,        \* visibility flags left by the previous pass
    adj,               \* makeRakeCyclePathsSV: adj[sid] = [prev, next]
    visited,           \* makeRakeCyclePathsSV: visited set
    chain,             \* makeRakeCyclePathsSV: chain under construction
    cursor,            \* makeRakeCyclePathsSV: index in the loop being run
    callSid,           \* followChain: the sid argument of the pending call
    appended,          \* sids appended to a chain so far, in order
    originalACStates,  \* TimeTable.originalACStates, <<>> before it is stored
    arg,               \* the argument of the last call of the operation run
    ret,               \* the value that call returned
    before,            \* the timetable as it was when that call was made
    allServices,       \* parser.wtt.upServices + parser.wtt.downServices
    filterStates       \* Gardi.filterStates: the saved query fields per mode

vars == <<suburbanServices, rakecycles, conflictingLinks, allCyclesWtt, query,
          pc, err, passes, firstFlags, adj, visited, chain, cursor, callSid,
          appended, originalACStates, arg, ret, before, allServices, filterStates>>

(***************************************************************************)
(* Values                                                                  *)
(***************************************************************************)

\* Python None for an event time (StationEvent._timeToMinutes returns None).
NoTime == -1

\* Python None / "" for an optional string (both are falsy).
NoStation == ""

\* Python None for a service id (Service.linkedTo, adj[sid]['prev'/'next']).
NoId == ""

\* str.upper() on the station names that occur in the model.
Upper(s) ==
    CASE s = "Dadar" -> "DADAR"
      [] s = "dadar" -> "DADAR"
      [] s = "Virar" -> "VIRAR"
      [] OTHER -> s

SeqToSet(s) == {s[i] : i \in DOMAIN s}

\* All sequences over S of length lo..hi.
SeqsBetween(S, lo, hi) == UNION {[1..n -> S] : n \in lo..hi}

(***************************************************************************)
(* FilterEngine (gardi/core/filters.py) and the Service constraint checks  *)
(* (gardi/core/models.py).  A timetable value w is a record                *)
(* [rakecycles, suburbanServices, err]; every operation maps w to the w it *)
(* leaves behind.                                                          *)
(***************************************************************************)

Wtt(rcs, svs, e) == [rakecycles |-> rcs, suburbanServices |-> svs, err |-> e]

\* t_lower <= t <= t_upper
InWindow(t, win) == win[1] <= t /\ t <= win[2]

ShowEvents(evs) == [j \in DOMAIN evs |-> [evs[j] EXCEPT !.render = TRUE]]

\* A reset that inverts the flag of a service with events instead of setting it.
reset_all_flags_toggled(w) ==
    Wtt([i \in DOMAIN w.rakecycles |-> [w.rakecycles[i] EXCEPT !.render = TRUE]],
        [k \in DOMAIN w.suburbanServices |->
            LET svc == w.suburbanServices[k] IN
            IF svc.events = <<>>
            THEN [svc EXCEPT !.render = FALSE]
            ELSE [svc EXCEPT !.render = ~svc.render,
                             !.events = ShowEvents(svc.events)]],
        w.err)

\* A reset that shows every service, the ones with no events as well.
reset_all_flags_shown(w) ==
    Wtt([i \in DOMAIN w.rakecycles |-> [w.rakecycles[i] EXCEPT !.render = TRUE]],
        [k \in DOMAIN w.suburbanServices |->
            [w.suburbanServices[k] EXCEPT
                !.render = TRUE, !.events = ShowEvents(w.suburbanServices[k].events)]],
        w.err)

\* A reset that leaves every flag as the pass before left it.
reset_all_flags_kept(w) == w

\* FilterEngine.reset_all_flags
reset_all_flags(w) ==
    Wtt([i \in DOMAIN w.rakecycles |-> [w.rakecycles[i] EXCEPT !.render = TRUE]],
        [k \in DOMAIN w.suburbanServices |->
            LET svc == w.suburbanServices[k] IN
            IF svc.events = <<>>
            THEN [svc EXCEPT !.render = FALSE]
            ELSE [svc EXCEPT !.render = TRUE, !.events = ShowEvents(svc.events)]],
        w.err)

\* for s in rc.servicePath: el.extend(s.events)
RECURSIVE FlattenEvents(_, _)
FlattenEvents(path, svs) ==
    IF path = <<>> THEN <<>>
    ELSE svs[Head(path)].events \o FlattenEvents(Tail(path), svs)

\* rc.servicePath[0].events[0].atStation
FirstStation(rc, svs) == svs[rc.servicePath[1]].events[1].atStation

\* rc.servicePath[-1].events[-1].atStation
LastStation(rc, svs) ==
    LET evs == svs[rc.servicePath[Len(rc.servicePath)]].events
    IN evs[Len(evs)].atStation

\* FilterEngine._apply_terminal_station_filters
apply_terminal_station_filters(w, start, end) ==
    Wtt([i \in DOMAIN w.rakecycles |->
            LET rc == w.rakecycles[i] IN
            IF rc.servicePath = <<>>
            THEN [rc EXCEPT !.render = FALSE]
            ELSE [rc EXCEPT !.render =
                    /\ ~(start # NoStation
                         /\ Upper(start) # FirstStation(rc, w.suburbanServices))
                    /\ ~(end # NoStation
                         /\ Upper(end) # LastStation(rc, w.suburbanServices))]],
        w.suburbanServices, w.err)

\* The events of the cycle kept by the time filter of the passing-through check.
EventsInPeriod(el, period) ==
    SelectSeq(el, LAMBDA e : e.atTime # NoTime /\ e.atTime # 0
                             /\ InWindow(e.atTime, period))

\* The set `seen` of _apply_passing_through_filter.
SeenStations(el, selected) ==
    {Upper(el[j].atStation) : j \in {x \in DOMAIN el : el[x].atStation # NoStation}}
        \cap SeqToSet(selected)

\* FilterEngine._apply_passing_through_filter
apply_passing_through_filter(w, qq) ==
    IF qq.passingThrough = <<>> THEN w
    ELSE
    LET selected == [j \in DOMAIN qq.passingThrough |-> Upper(qq.passingThrough[j])]
    IN  Wtt([i \in DOMAIN w.rakecycles |->
                LET rc == w.rakecycles[i] IN
                IF rc.servicePath = <<>>
                THEN [rc EXCEPT !.render = FALSE]
                ELSE
                LET el == EventsInPeriod(
                              FlattenEvents(rc.servicePath, w.suburbanServices),
                              qq.inTimePeriod)
                    seen == SeenStations(el, selected)
                IN  IF Cardinality(seen) < Len(selected)
                    THEN [rc EXCEPT !.render = FALSE]
                    ELSE rc],
            w.suburbanServices, w.err)

\* FilterEngine._apply_ac_filter
apply_ac_filter(w, qq) ==
    IF qq.ac = "None" \/ qq.ac = "all" THEN w
    ELSE Wtt([i \in DOMAIN w.rakecycles |->
                LET rc == w.rakecycles[i] IN
                IF ~rc.hasRake THEN [rc EXCEPT !.render = FALSE]
                ELSE IF qq.ac = "ac" /\ ~rc.isAC THEN [rc EXCEPT !.render = FALSE]
                ELSE IF qq.ac = "nonac" /\ rc.isAC THEN [rc EXCEPT !.render = FALSE]
                ELSE rc],
             w.suburbanServices, w.err)

\* FilterEngine.apply_link_filters
apply_link_filters(w, qq) ==
    apply_ac_filter(
        apply_passing_through_filter(
            apply_terminal_station_filters(w, qq.startStation, qq.endStation), qq),
        qq)

(***************************************************************************)
(* Service.check*Constraint: each returns "pass" (render left alone),      *)
(* "hide" (render = False) or "raise" (the comparison of None with an int  *)
(* raises TypeError).                                                      *)
(***************************************************************************)

\* Service.checkDirectionConstraint
checkDirectionConstraint(svc, qq) ==
    IF qq.inDirection = <<>> THEN "pass"
    ELSE IF \E j \in DOMAIN qq.inDirection :
                \/ qq.inDirection[j] = "UP" /\ svc.direction = "UP"
                \/ qq.inDirection[j] = "DOWN" /\ svc.direction = "DOWN"
         THEN "pass" ELSE "hide"

\* Service.checkACConstraint
checkACConstraint(svc, qq) ==
    IF qq.ac = "None" \/ qq.ac = "all" THEN "pass"
    ELSE IF qq.ac = "ac" /\ ~svc.needsACRake THEN "hide"
    ELSE IF qq.ac = "nonac" /\ svc.needsACRake THEN "hide"
    ELSE "pass"

\* Service.checkStartStationConstraint
checkStartStationConstraint(svc, qq) ==
    IF qq.startStation = NoStation THEN "pass"
    ELSE IF svc.events[1].atStation = qq.startStation
         THEN IF svc.events[1].atTime = NoTime THEN "raise"
              ELSE IF ~InWindow(svc.events[1].atTime, qq.inTimePeriod) THEN "hide"
              ELSE "pass"
         ELSE "hide"

\* Service.checkEndStationConstraint
checkEndStationConstraint(svc, qq) ==
    LET last == svc.events[Len(svc.events)] IN
    IF qq.endStation = NoStation THEN "pass"
    ELSE IF last.atStation = qq.endStation
         THEN IF last.atTime = NoTime THEN "raise"
              ELSE IF ~InWindow(last.atTime, qq.inTimePeriod) THEN "hide"
              ELSE "pass"
         ELSE "hide"

\* stnMapTimes[st][-1]: the time of the last event of the service at st.
LastTimeAt(svc, st) ==
    LET at == {j \in DOMAIN svc.events : svc.events[j].atStation = st}
    IN  svc.events[CHOOSE j \in at : \A x \in at : x <= j].atTime

\* if not (t_lower <= t <= t_upper): self.render = False
PassingTimeCheck(t, period) ==
    IF t = NoTime THEN "raise"
    ELSE IF ~InWindow(t, period) THEN "hide"
    ELSE "pass"

\* The check of one station of the passing-through list.
PassingStationCheck(svc, st, period) ==
    IF \A j \in DOMAIN svc.events : svc.events[j].atStation # st THEN "hide"
    ELSE PassingTimeCheck(LastTimeAt(svc, st), period)

\* The first station that does not pass decides (return on the first
\* render = False, or the raise).
FirstNotPass(results) ==
    IF \A j \in DOMAIN results : results[j] = "pass" THEN "pass"
    ELSE results[CHOOSE j \in DOMAIN results :
                    /\ results[j] # "pass"
                    /\ \A x \in 1..(j - 1) : results[x] = "pass"]

\* Service.checkPassingThroughConstraint
checkPassingThroughConstraint(svc, qq) ==
    FirstNotPass([j \in DOMAIN qq.passingThrough |->
                     PassingStationCheck(svc, Upper(qq.passingThrough[j]),
                                         qq.inTimePeriod)])

\* The five checks in the order apply_service_filters calls them.
ServiceChecks(svc, qq) ==
    << checkDirectionConstraint(svc, qq),
       checkACConstraint(svc, qq),
       checkStartStationConstraint(svc, qq),
       checkEndStationConstraint(svc, qq),
       checkPassingThroughConstraint(svc, qq) >>

\* The position of the first check that raises, 6 when none does.
FirstRaise(checks) ==
    IF \A j \in DOMAIN checks : checks[j] # "raise" THEN Len(checks) + 1
    ELSE CHOOSE j \in DOMAIN checks :
            /\ checks[j] = "raise"
            /\ \A x \in 1..(j - 1) : checks[x] # "raise"

\* The service after its checks: a raise ends the iteration with the render
\* flag the earlier checks left.
AfterChecks(svc, checks) ==
    [svc |-> [svc EXCEPT !.events = ShowEvents(svc.events),
                         !.render = \A j \in 1..(FirstRaise(checks) - 1) :
                                        checks[j] # "hide"],
     raised |-> FirstRaise(checks) <= Len(checks)]

\* One iteration of the service loop of apply_service_filters: the service as
\* the iteration leaves it, and whether the iteration raised.
FilterService(svc, qq) ==
    IF svc.events = <<>>
    THEN [svc |-> [svc EXCEPT !.render = FALSE], raised |-> FALSE]
    ELSE AfterChecks(svc, ServiceChecks(svc, qq))

\* The cycle loop of apply_service_filters.
CyclesFromServices(rcs, svs) ==
    [i \in DOMAIN rcs |->
        [rcs[i] EXCEPT !.render =
            /\ rcs[i].servicePath # <<>>
            /\ \E j \in DOMAIN rcs[i].servicePath : svs[rcs[i].servicePath[j]].render]]

\* The services after the service loop: it runs in list order and a raise
\* leaves the later services as they were.
ServicesAfterLoop(svs, done) ==
    [k \in DOMAIN svs |->
        IF \E x \in 1..(k - 1) : done[x].raised THEN svs[k] ELSE done[k].svc]

\* The timetable after the loops: a raise leaves every cycle as it was.
AfterServiceLoop(w, done) ==
    IF \E k \in DOMAIN done : done[k].raised
    THEN Wtt(w.rakecycles, ServicesAfterLoop(w.suburbanServices, done), "TypeError")
    ELSE Wtt(CyclesFromServices(w.rakecycles, [k \in DOMAIN done |-> done[k].svc]),
             [k \in DOMAIN done |-> done[k].svc], w.err)

\* FilterEngine.apply_service_filters
apply_service_filters(w, qq) ==
    AfterServiceLoop(w, [k \in DOMAIN w.suburbanServices |->
                            FilterService(w.suburbanServices[k], qq)])

\* The event loop with the upper end of the window excluded.
StationEvents_open(evs, period) ==
    [j \in DOMAIN evs |->
        [evs[j] EXCEPT !.render = evs[j].atTime # NoTime
                                  /\ period[1] <= evs[j].atTime
                                  /\ evs[j].atTime < period[2]]]

\* The event loop of apply_station_filters.
StationEvents(evs, period) ==
    [j \in DOMAIN evs |->
        [evs[j] EXCEPT !.render = evs[j].atTime # NoTime
                                  /\ InWindow(evs[j].atTime, period)]]

\* FilterEngine.apply_station_filters
apply_station_filters(w, qq) ==
    Wtt([i \in DOMAIN w.rakecycles |-> [w.rakecycles[i] EXCEPT !.render = TRUE]],
        [k \in DOMAIN w.suburbanServices |->
            LET svc == w.suburbanServices[k] IN
            IF svc.events = <<>>
            THEN [svc EXCEPT !.render = FALSE]
            ELSE [svc EXCEPT !.events = StationEvents(svc.events, qq.inTimePeriod),
                             !.render = checkACConstraint(svc, qq) # "hide"]],
        w.err)

\* FilterEngine.apply_filters
apply_filters(w, qq) ==
    IF qq.type = "SERVICE" THEN apply_service_filters(w, qq)
    ELSE IF qq.type = "STATION" THEN apply_station_filters(w, qq)
    ELSE apply_link_filters(w, qq)

\* Gardi.generate_visualization: reset, then filter.
FilterPass(w, qq) == apply_filters(reset_all_flags(w), qq)

\* The visibility flags of every RakeCycle, Service and StationEvent.
Flags(rcs, svs) ==
    [cycles |-> [i \in DOMAIN rcs |-> rcs[i].render],
     services |-> [k \in DOMAIN svs |-> svs[k].render],
     events |-> [k \in DOMAIN svs |->
                    [j \in DOMAIN svs[k].events |-> svs[k].events[j].render]]]


(***************************************************************************)
(* SpecFilter: the timetable left by generateRakeCycles, then filter       *)
(* passes (Gardi.generate_visualization).                                  *)
(***************************************************************************)

MaxEvents == 3
MaxPassing == 2

\* Indices into TimeTable.suburbanServices.
SvcIds == {1, 2}
Stations == {"DADAR", "VIRAR"}
Times == {500, 600}
Windows == {<<600, 660>>, <<500, 600>>}
LinkNames == <<"A", "B", "C", "D">>

\* serviceId[0] of the k-th service, written as str() prints it: a five-digit
\* number, or the text rEtyPattern matched.
ServiceNames == <<"93001", "93002", "ETY1", "ETY2">>

\* StationEvent as generateStationEvents creates it: render = True.
EventRecords == [atStation : Stations, atTime : Times \cup {NoTime}, render : {TRUE}]

\* generateRakeCycles calls computeDurationMinutes on every service it gives
\* events to, so the first and the last event of such a service have a time.
EventLists ==
    {evs \in SeqsBetween(EventRecords, 1, MaxEvents) :
        evs[1].atTime # NoTime /\ evs[Len(evs)].atTime # NoTime}

\* Service paths without a repeated service.
Paths == {p \in SeqsBetween(SvcIds, 1, Cardinality(SvcIds)) :
             \A i, j \in DOMAIN p : i # j => p[i] # p[j]}

\* The active cycles' paths: each service that has events lies on one of them
\* (generateRakeCycles gives events to the services of the active paths only).
Layouts(withEvents) ==
    {L \in SeqsBetween(Paths, 1, Cardinality(SvcIds)) :
        /\ UNION {SeqToSet(L[i]) : i \in DOMAIN L} = withEvents
        /\ \A i, j \in DOMAIN L :
              i < j => /\ SeqToSet(L[i]) \cap SeqToSet(L[j]) = {}
                       /\ L[i][1] < L[j][1]}

PathIds(path, svs) == [j \in DOMAIN path |-> svs[path[j]].serviceId[1]]

\* Rake.__init__: self.rakeSize = 12
RakeSizeDefault == 12

\* extractServiceHeader: rakeSize = 15 when no cell of the header names a size.
RakeSizeReqDefault == 15

\* Service.__init__: self.rakeSizeReq = None
NoSize == 0

\* The loop of assignRakes over the path from position j on: it ends at the
\* first service that needs an AC rake or has a rakeSizeReq.
RakeFor(path, svs, j) ==
    LET RECURSIVE Scan(_)
        Scan(k) ==
            IF k > Len(path) THEN [isAC |-> FALSE, rakeSize |-> RakeSizeDefault]
            ELSE IF svs[path[k]].needsACRake
                 THEN [isAC |-> TRUE, rakeSize |-> RakeSizeDefault]
            ELSE IF svs[path[k]].rakeSizeReq # NoSize
                 THEN [isAC |-> FALSE, rakeSize |-> svs[path[k]].rakeSizeReq]
            ELSE Scan(k + 1)
    IN  Scan(j)

\* An assignment that hands the one Rake(0) to every cycle.
assignRakes_shared(rcs, svs) ==
    [i \in DOMAIN rcs |->
        [rcs[i] EXCEPT !.hasRake = TRUE, !.rakeId = 0,
                       !.isAC = RakeFor(rcs[i].servicePath, svs, 1).isAC,
                       !.rakeSize = RakeFor(rcs[i].servicePath, svs, 1).rakeSize]]

\* TimeTable.assignRakes: rake = Rake(i) for the i-th cycle, counted from 0.
assignRakes(rcs, svs) ==
    [i \in DOMAIN rcs |->
        [rcs[i] EXCEPT !.hasRake = TRUE, !.rakeId = i - 1,
                       !.isAC = RakeFor(rcs[i].servicePath, svs, 1).isAC,
                       !.rakeSize = RakeFor(rcs[i].servicePath, svs, 1).rakeSize]]

\* RakeCycle.__init__ followed by the assignment of its ids and path.
NewRakeCycle(i, ids, path) ==
    [id |-> i, linkName |-> LinkNames[i], serviceIds |-> ids, servicePath |-> path,
     pathIsNone |-> FALSE, status |-> "VALID", hasRake |-> FALSE, isAC |-> FALSE,
     rakeId |-> -1, rakeSize |-> NoSize, render |-> TRUE]

\* Number of station and equipment constraints a query sets.
ConstraintCount(qq) ==
    (IF qq.startStation # NoStation THEN 1 ELSE 0)
    + (IF qq.endStation # NoStation THEN 1 ELSE 0)
    + (IF qq.passingThrough # <<>> THEN 1 ELSE 0)
    + (IF qq.ac # "all" THEN 1 ELSE 0)

\* FilterQuery values: a mode, a time window, at most one station or equipment
\* constraint and, on the service tab, the direction selector.
Queries ==
    {qq \in [type : {"RAKELINK", "SERVICE", "STATION"},
             startStation : {NoStation, "DADAR"},
             endStation : {NoStation, "VIRAR"},
             passingThrough : SeqsBetween(Stations, 0, MaxPassing),
             inTimePeriod : Windows,
             ac : {"all", "ac", "nonac"},
             inDirection : {<<>>, <<"DOWN">>}] :
        /\ ConstraintCount(qq) <= 1
        /\ qq.inDirection # <<>> => qq.type = "SERVICE"}

\* Gardi.__init__: FilterQuery() with type RAKELINK.
DefaultQuery ==
    [type |-> "RAKELINK", startStation |-> NoStation, endStation |-> NoStation,
     passingThrough |-> <<>>, inTimePeriod |-> <<165, 1605>>, ac |-> "None",
     inDirection |-> <<>>]

LinkIdle ==
    /\ adj = <<>> /\ visited = {} /\ chain = <<>> /\ cursor = 0 /\ callSid = NoId
    /\ appended = <<>>

\* No call has been made and originalACStates does not exist yet.
CallIdle ==
    /\ originalACStates = <<>> /\ arg = <<>> /\ ret = <<>> /\ before = <<>>
    /\ allServices = <<>> /\ filterStates = <<>>

CallFrame == <<originalACStates, arg, ret, before, allServices, filterStates>>

InitFilter ==
    /\ \E evs \in [SvcIds -> EventLists \cup {<<>>}], ac \in [SvcIds -> BOOLEAN] :
          /\ \/ \A k \in SvcIds : evs[k] # <<>> <=> k = 1
             \/ \A k \in SvcIds : Len(evs[k]) = 1
          /\ \A k \in SvcIds : evs[k] = <<>> => ~ac[k]
          /\ suburbanServices =
                [k \in SvcIds |->
                    [serviceId |-> <<ServiceNames[k]>>,
                     direction |-> IF k % 2 = 1 THEN "UP" ELSE "DOWN",
                     needsACRake |-> ac[k], rakeSizeReq |-> RakeSizeReqDefault,
                     linkedTo |-> NoId, events |-> evs[k], render |-> TRUE]]
    /\ \E L \in Layouts({k \in SvcIds : suburbanServices[k].events # <<>>}) :
          rakecycles =
              assignRakes([i \in DOMAIN L |->
                              NewRakeCycle(i, PathIds(L[i], suburbanServices), L[i])],
                          suburbanServices)
    /\ conflictingLinks = <<>>
    /\ allCyclesWtt = <<>>
    /\ query = DefaultQuery
    /\ pc = "generated"
    /\ err = ""
    /\ passes = 0
    /\ firstFlags = Flags(rakecycles, suburbanServices)
    /\ LinkIdle
    /\ CallIdle

\* on_generate_click with a query the callbacks have set, first pass.
Generate ==
    /\ pc = "generated"
    /\ \E qq \in Queries :
          LET w == FilterPass(Wtt(rakecycles, suburbanServices, ""), qq) IN
          /\ query' = qq
          /\ rakecycles' = w.rakecycles
          /\ suburbanServices' = w.suburbanServices
          /\ err' = w.err
          /\ firstFlags' = Flags(w.rakecycles, w.suburbanServices)
    /\ pc' = "filtered"
    /\ passes' = 1
    /\ UNCHANGED <<conflictingLinks, allCyclesWtt, adj, visited, chain, cursor,
                   callSid, appended, CallFrame>>

\* generate_visualization again with the query unchanged.
Regenerate ==
    /\ pc = "filtered"
    /\ passes = 1
    /\ LET w == FilterPass(Wtt(rakecycles, suburbanServices, ""), query) IN
          /\ rakecycles' = w.rakecycles
          /\ suburbanServices' = w.suburbanServices
          /\ err' = w.err
    /\ firstFlags' = Flags(rakecycles, suburbanServices)
    /\ passes' = 2
    /\ UNCHANGED <<query, pc, conflictingLinks, allCyclesWtt, adj, visited, chain,
                   cursor, callSid, appended, CallFrame>>

NextFilter == Generate \/ Regenerate

SpecFilter == InitFilter /\ [][NextFilter]_vars

(***************************************************************************)
(* Properties of the filter passes                                         *)
(***************************************************************************)

AfterPass(type) == pc = "filtered" /\ query.type = type

\* The events of the services on the path of a cycle.
CycleEvents(rc) == FlattenEvents(rc.servicePath, suburbanServices)

\* Some event of evs at station st has a time inside the window.
StopsInWindow(evs, st, win) ==
    \E j \in DOMAIN evs :
        /\ evs[j].atStation = Upper(st)
        /\ evs[j].atTime # NoTime
        /\ InWindow(evs[j].atTime, win)

\* The equipment constraint as the query states it.
ACMatches(isAC) ==
    \/ query.ac \in {"None", "all"}
    \/ query.ac = "ac" /\ isAC
    \/ query.ac = "nonac" /\ ~isAC

\* C1: running the pass (reset_all_flags, apply_filters) a second time with
\* the identical query leaves the visibility flags of every RakeCycle,
\* Service and StationEvent exactly as the first pass left them.
FilterIdempotent ==
    passes = 2 => Flags(rakecycles, suburbanServices) = firstFlags

\* A second pass has run with a query whose first pass hid one cycle and
\* kept another.
FilterIdempotentWitness ==
    /\ passes = 2
    /\ \E i, j \in DOMAIN rakecycles :
          /\ ~rakecycles[i].render /\ ~firstFlags.cycles[i]
          /\ rakecycles[j].render /\ firstFlags.cycles[j]

\* C2: after a RAKELINK pass a cycle is visible iff (i) its path is
\* non-empty, (ii) its first and last stations equal the start and end
\* constraints that are given, (iii) every station of the passing-through
\* list, repeated or not, has an event of the cycle inside the time window,
\* and (iv) its rake matches the AC constraint.
LinkVisibleIffFour ==
    AfterPass("RAKELINK") =>
        \A i \in DOMAIN rakecycles :
            LET rc == rakecycles[i] IN
            rc.render <=>
                /\ rc.servicePath # <<>>
                /\ query.startStation # NoStation =>
                       FirstStation(rc, suburbanServices) = Upper(query.startStation)
                /\ query.endStation # NoStation =>
                       LastStation(rc, suburbanServices) = Upper(query.endStation)
                /\ \A j \in DOMAIN query.passingThrough :
                       StopsInWindow(CycleEvents(rc), query.passingThrough[j],
                                     query.inTimePeriod)
                /\ ACMatches(rc.isAC) /\ (rc.hasRake \/ query.ac \in {"None", "all"})

\* C3: after a SERVICE pass a cycle is visible iff at least one service on
\* its path is visible.
CycleVisibleIffService ==
    AfterPass("SERVICE") =>
        \A i \in DOMAIN rakecycles :
            rakecycles[i].render <=>
                \E j \in DOMAIN rakecycles[i].servicePath :
                    suburbanServices[rakecycles[i].servicePath[j]].render

\* The five constraints of the service tab as the query states them.
FiveSatisfied(svc) ==
    /\ query.inDirection # <<>> => svc.direction \in SeqToSet(query.inDirection)
    /\ ACMatches(svc.needsACRake)
    /\ query.startStation # NoStation =>
          /\ svc.events[1].atStation = query.startStation
          /\ svc.events[1].atTime # NoTime
          /\ InWindow(svc.events[1].atTime, query.inTimePeriod)
    /\ query.endStation # NoStation =>
          /\ svc.events[Len(svc.events)].atStation = query.endStation
          /\ svc.events[Len(svc.events)].atTime # NoTime
          /\ InWindow(svc.events[Len(svc.events)].atTime, query.inTimePeriod)
    /\ \A j \in DOMAIN query.passingThrough :
          StopsInWindow(svc.events, query.passingThrough[j], query.inTimePeriod)

\* C4: a SERVICE pass raises no error and leaves every service that has
\* events visible iff the five constraints are all satisfied.
ServiceVisibleIffFive ==
    AfterPass("SERVICE") =>
        /\ err = ""
        /\ \A k \in DOMAIN suburbanServices :
              suburbanServices[k].events # <<>> =>
                  (suburbanServices[k].render <=> FiveSatisfied(suburbanServices[k]))

\* C5: after a STATION pass every cycle is visible, an event of a service
\* with events is visible iff its time is not null and t_lower <= t <= t_upper,
\* and a service with events is hidden by the AC constraint only.
StationModeFlags ==
    AfterPass("STATION") =>
        /\ \A i \in DOMAIN rakecycles : rakecycles[i].render
        /\ \A k \in DOMAIN suburbanServices :
              LET svc == suburbanServices[k] IN
              svc.events # <<>> =>
                  /\ svc.render <=> ACMatches(svc.needsACRake)
                  /\ \A j \in DOMAIN svc.events :
                        svc.events[j].render <=>
                            /\ svc.events[j].atTime # NoTime
                            /\ query.inTimePeriod[1] <= svc.events[j].atTime
                            /\ svc.events[j].atTime <= query.inTimePeriod[2]

\* A STATION pass with window [600, 660] and a start-station constraint has
\* hidden an event at 500 and an event with no time, kept an event at 600,
\* and left the service and its cycle visible.
StationModeFlagsWitness ==
    /\ AfterPass("STATION")
    /\ query.inTimePeriod = <<600, 660>>
    /\ query.startStation # NoStation
    /\ \E i \in DOMAIN rakecycles :
          /\ rakecycles[i].render
          /\ \E p \in DOMAIN rakecycles[i].servicePath :
                LET svc == suburbanServices[rakecycles[i].servicePath[p]] IN
                /\ svc.render
                /\ svc.events[1].atStation # query.startStation
                /\ \E a, b, c \in DOMAIN svc.events :
                      /\ svc.events[a].atTime = 500 /\ ~svc.events[a].render
                      /\ svc.events[b].atTime = NoTime /\ ~svc.events[b].render
                      /\ svc.events[c].atTime = 600 /\ svc.events[c].render



\* The query asks for passing-through stations and a time window only.
PassingOnly(qq) ==
    /\ qq.passingThrough # <<>>
    /\ qq.startStation = NoStation /\ qq.endStation = NoStation
    /\ qq.ac \in {"None", "all"} /\ qq.inDirection = <<>>

\* Service k has, for every queried station, an event there inside the window.
EveryStationInWindow(k, qq) ==
    \A j \in DOMAIN qq.passingThrough :
        \E e \in DOMAIN suburbanServices[k].events :
            /\ suburbanServices[k].events[e].atStation = Upper(qq.passingThrough[j])
            /\ suburbanServices[k].events[e].atTime # NoTime
            /\ InWindow(suburbanServices[k].events[e].atTime, qq.inTimePeriod)

\* C30: for a cycle of a single service and a query with passing-through
\* stations and a window only, the RAKELINK pass shows the cycle if and only
\* if the SERVICE pass shows the service, and both do so exactly when every
\* queried station (matched without regard to case) has an event of the
\* service inside the window.
PassingSameInBothModes ==
    (pc = "filtered" /\ PassingOnly(query)) =>
        LET w == Wtt(rakecycles, suburbanServices, "")
            wr == FilterPass(w, [query EXCEPT !.type = "RAKELINK"])
            ws == FilterPass(w, [query EXCEPT !.type = "SERVICE"])
        IN  \A i \in DOMAIN rakecycles :
                Len(rakecycles[i].servicePath) = 1 =>
                    LET k == rakecycles[i].servicePath[1] IN
                    /\ ws.err = ""
                    /\ wr.rakecycles[i].render = EveryStationInWindow(k, query)
                    /\ ws.suburbanServices[k].render = EveryStationInWindow(k, query)

(***************************************************************************)
(* SpecValidate: TimeTable.validateRakeCycles on the cycles whose paths    *)
(* generateRakeCycles has resolved.                                        *)
(***************************************************************************)

MaxChainLen == 2
MaxStubLen == 4

\* "ETY" in str(id), on the ids of ServiceNames.
HasETY(id) ==
    CASE id = "ETY1" -> TRUE
      [] id = "ETY2" -> TRUE
      [] OTHER -> FALSE

\* seq[:-n]
DropLast(seq, n) == IF Len(seq) <= n THEN <<>> ELSE SubSeq(seq, 1, Len(seq) - n)

\* The loop body of validateRakeCycles with no tolerated divergence.
IsConflict_exact(rc, svs) == PathIds(rc.servicePath, svs) # rc.serviceIds

\* The loop body of validateRakeCycles: TRUE when the cycle is appended to
\* conflictingLinks.
IsConflict(rc, svs) ==
    LET summaryPath == rc.serviceIds
        wttPath == PathIds(rc.servicePath, svs)
        summaryPathRed1 == DropLast(summaryPath, 2)
    IN  /\ wttPath # summaryPath
        /\ IF DropLast(summaryPath, 1) = wttPath
           THEN ~HasETY(summaryPath[Len(summaryPath)])
           ELSE ~(/\ summaryPathRed1 = wttPath
                  /\ HasETY(summaryPathRed1[Len(summaryPathRed1)])
                  /\ HasETY(summaryPath[Len(summaryPath)]))

\* TimeTable.validateRakeCycles
validateRakeCycles(rcs, svs, conflicts) ==
    LET hit == {i \in DOMAIN rcs : IsConflict(rcs[i], svs)}
        found == [i \in DOMAIN rcs |-> <<rcs[i], PathIds(rcs[i].servicePath, svs)>>]
        all == conflicts \o SelectSeq(found, LAMBDA e : IsConflict(e[1], svs))
        gone == {all[j][1].id : j \in DOMAIN all}
    IN  [rakecycles |-> SelectSeq(rcs, LAMBDA rc : rc.id \notin gone),
         conflictingLinks |-> all]

\* Chains of makeRakeCyclePathsSV: no service twice.
Chains(maxLen) ==
    {c \in SeqsBetween(DOMAIN ServiceNames, 1, maxLen) :
        \A i, j \in DOMAIN c : i # j => c[i] # c[j]}

\* A resolved link: a summary stub and the chain matched to it, which starts
\* with the stub's first id.
Links(maxStub, maxChain) ==
    {l \in [serviceIds : SeqsBetween(SeqToSet(ServiceNames), 1, maxStub),
            servicePath : Chains(maxChain)] :
        l.serviceIds[1] = ServiceNames[l.servicePath[1]]}

\* No second link.
NoLink == [serviceIds |-> <<>>, servicePath |-> <<>>]

\* One link of any shape, alone or next to a short link, in either order.
LinkList(l, m, first) ==
    IF m = NoLink THEN <<l>> ELSE IF first THEN <<l, m>> ELSE <<m, l>>

InitValidate ==
    /\ suburbanServices =
          [k \in DOMAIN ServiceNames |->
              [serviceId |-> <<ServiceNames[k]>>,
               direction |-> IF k % 2 = 1 THEN "UP" ELSE "DOWN",
               needsACRake |-> FALSE, linkedTo |-> NoId, events |-> <<>>,
               render |-> TRUE]]
    /\ \E l \in Links(MaxStubLen, MaxChainLen), m \in Links(2, 1) \cup {NoLink},
          first \in BOOLEAN :
          LET L == LinkList(l, m, first) IN
          /\ m = NoLink => first
          /\ rakecycles = [i \in DOMAIN L |->
                              NewRakeCycle(i, L[i].serviceIds, L[i].servicePath)]
    /\ conflictingLinks = <<>>
    /\ allCyclesWtt = <<>>
    /\ query = DefaultQuery
    /\ pc = "resolved"
    /\ err = ""
    /\ passes = 0
    /\ firstFlags = <<>>
    /\ LinkIdle
    /\ CallIdle

\* generateRakeCycles: self.validateRakeCycles()
Validate ==
    /\ pc = "resolved"
    /\ LET r == validateRakeCycles(rakecycles, suburbanServices, conflictingLinks) IN
          /\ rakecycles' = r.rakecycles
          /\ conflictingLinks' = r.conflictingLinks
    /\ pc' = "validated"
    /\ UNCHANGED <<suburbanServices, allCyclesWtt, query, err, passes, firstFlags,
                   adj, visited, chain, cursor, callSid, appended, CallFrame>>

NextValidate == Validate

SpecValidate == InitValidate /\ [][NextValidate]_vars

(***************************************************************************)
(* Properties of the reconciliation                                        *)
(***************************************************************************)

\* The cycles the TimeTable references: the active set and the conflict log.
Referenced ==
    {rakecycles[i] : i \in DOMAIN rakecycles}
    \cup {conflictingLinks[j][1] : j \in DOMAIN conflictingLinks}

IsActive(rc) == \E i \in DOMAIN rakecycles : rakecycles[i].id = rc.id

ConflictEntries(rc) ==
    {j \in DOMAIN conflictingLinks : conflictingLinks[j][1].id = rc.id}

\* The id sequence of the resolved servicePath.
ResolvedIds(rc) == PathIds(rc.servicePath, suburbanServices)

\* The summary sequence is the resolved sequence followed by n further ids.
TrailingExtra(rc, n) ==
    /\ Len(rc.serviceIds) = Len(ResolvedIds(rc)) + n
    /\ SubSeq(rc.serviceIds, 1, Len(ResolvedIds(rc))) = ResolvedIds(rc)

\* Every one of the last n summary ids contains the stabling token.
TrailingStabling(rc, n) ==
    \A j \in (Len(rc.serviceIds) - n + 1)..Len(rc.serviceIds) :
        HasETY(rc.serviceIds[j])

\* The summary sequence equals the resolved one, or differs from it by one or
\* two trailing stabling ids only.
MatchesOrTolerated(rc) ==
    \/ rc.serviceIds = ResolvedIds(rc)
    \/ \E n \in {1, 2} : TrailingExtra(rc, n) /\ TrailingStabling(rc, n)

\* C6: after validateRakeCycles a cycle is in the active set iff its resolved
\* id sequence equals the summary sequence or differs by the tolerated
\* trailing stabling ids; every other cycle is in conflictingLinks exactly
\* once, paired with its resolved id sequence, and not in the active set.
ReconciliationOutcome ==
    pc = "validated" =>
        \A rc \in Referenced :
            IF MatchesOrTolerated(rc)
            THEN IsActive(rc) /\ ConflictEntries(rc) = {}
            ELSE /\ ~IsActive(rc)
                 /\ Cardinality(ConflictEntries(rc)) = 1
                 /\ \A j \in ConflictEntries(rc) :
                       conflictingLinks[j][2] = ResolvedIds(rc)

\* C7: a summary sequence that is the resolved sequence plus one further id
\* stays active with status VALID and no conflict when that id contains
\* "ETY", and is recorded as a conflict when it does not.
OneStablingTolerated ==
    pc = "validated" =>
        \A rc \in Referenced :
            TrailingExtra(rc, 1) =>
                IF TrailingStabling(rc, 1)
                THEN IsActive(rc) /\ rc.status = "VALID" /\ ConflictEntries(rc) = {}
                ELSE ~IsActive(rc) /\ ConflictEntries(rc) # {}

\* Validation has kept the stub [93001, 93002, ETY1] of the chain
\* [93001, 93002] and has recorded a stub with a further id without "ETY".
OneStablingToleratedWitness ==
    /\ pc = "validated"
    /\ \E i \in DOMAIN rakecycles :
          /\ rakecycles[i].serviceIds = <<"93001", "93002", "ETY1">>
          /\ ResolvedIds(rakecycles[i]) = <<"93001", "93002">>
    /\ \E j \in DOMAIN conflictingLinks :
          /\ TrailingExtra(conflictingLinks[j][1], 1)
          /\ ~TrailingStabling(conflictingLinks[j][1], 1)

\* C8: a summary sequence that is the resolved sequence plus two further ids
\* is tolerated exactly when both of those ids contain "ETY", whatever the
\* ids of the matching prefix are.
TwoStablingTolerated ==
    pc = "validated" =>
        \A rc \in Referenced :
            TrailingExtra(rc, 2) =>
                IF TrailingStabling(rc, 2)
                THEN IsActive(rc) /\ ConflictEntries(rc) = {}
                ELSE ~IsActive(rc) /\ ConflictEntries(rc) # {}

\* C9: after reconciliation every referenced cycle with status VALID has a
\* resolved id sequence that equals the summary sequence or differs from it
\* by the tolerated trailing stabling ids only.
ValidStatusMeansMatch ==
    pc = "validated" =>
        \A rc \in Referenced : rc.status = "VALID" => MatchesOrTolerated(rc)

(***************************************************************************)
(* SpecLink: TimeTable.makeRakeCyclePathsSV, one loop iteration or one     *)
(* followChain call per step.                                              *)
(***************************************************************************)

MaxAppends == 8

\* The keys of idMap in insertion order: the ids of the services in list
\* order, each key at its first position.
IdMapKeys(svs) ==
    LET RECURSIVE Ids(_)
        Ids(k) == IF k > Len(svs) THEN <<>> ELSE svs[k].serviceId \o Ids(k + 1)
        ids == Ids(1)
        firsts == {i \in DOMAIN ids : \A j \in 1..(i - 1) : ids[j] # ids[i]}
        RECURSIVE Keep(_)
        Keep(i) == IF i > Len(ids) THEN <<>>
                   ELSE (IF i \in firsts THEN <<ids[i]>> ELSE <<>>) \o Keep(i + 1)
    IN  Keep(1)

\* idMap[sid]: the last service of the list that carries the id.
IdMap(svs, sid) ==
    CHOOSE k \in DOMAIN svs :
        /\ sid \in SeqToSet(svs[k].serviceId)
        /\ \A x \in DOMAIN svs : sid \in SeqToSet(svs[x].serviceId) => x <= k

\* int(str(sv.linkedTo).strip()), written as str() prints it.
LinkTarget(text) ==
    CASE text = "09301" -> "9301"
      [] OTHER -> text

\* defaultdict(lambda: {'prev': None, 'next': None})
EmptyAdj(svs) ==
    [sid \in SeqToSet(IdMapKeys(svs)) |-> [prev |-> NoId, next |-> NoId]]

\* The link loop with the back reference left out.
AddLink_noprev(a, svs, key) ==
    LET sv == svs[IdMap(svs, key)]
        sid == sv.serviceId[1]
        nextId == LinkTarget(sv.linkedTo)
    IN  IF sv.linkedTo = NoId THEN a
        ELSE IF nextId \notin DOMAIN a THEN a
        ELSE [a EXCEPT ![sid].next = nextId]

\* One iteration of the loop that builds the directed links.
AddLink(a, svs, key) ==
    LET sv == svs[IdMap(svs, key)]
        sid == sv.serviceId[1]
        nextId == LinkTarget(sv.linkedTo)
    IN  IF sv.linkedTo = NoId THEN a
        ELSE IF nextId \notin DOMAIN a THEN a
        ELSE LET b == [a EXCEPT ![sid].next = nextId]
             IN  [b EXCEPT ![nextId].prev = sid]

\* followChain returns at once whatever has been visited.
FollowReturns_unregistered(sid, seen, svs) == sid \notin SeqToSet(IdMapKeys(svs))

\* followChain: if sid in visited or sid not in idMap: return
FollowReturns(sid, seen, svs) ==
    sid \in seen \/ sid \notin SeqToSet(IdMapKeys(svs))

\* The texts a linkedTo cell can hold: ids of the list, an id of no service
\* of the list, a five-digit text with a leading zero.
LinkTexts == {NoId, "93001", "93002", "93003", "93004", "09301"}

\* Three service columns; the first may carry a second id.
InitLink ==
    /\ \E second \in BOOLEAN, to \in [1..3 -> LinkTexts] :
          suburbanServices =
              [k \in 1..3 |->
                  [serviceId |-> IF k = 1 /\ second THEN <<"93001", "93004">>
                                 ELSE <<ServiceNames[k]>>,
                   direction |-> IF k % 2 = 1 THEN "UP" ELSE "DOWN",
                   needsACRake |-> FALSE, linkedTo |-> to[k], events |-> <<>>,
                   render |-> TRUE]]
    /\ rakecycles = <<>>
    /\ conflictingLinks = <<>>
    /\ allCyclesWtt = <<>>
    /\ query = DefaultQuery
    /\ pc = "build"
    /\ err = ""
    /\ passes = 0
    /\ firstFlags = <<>>
    /\ adj = EmptyAdj(suburbanServices)
    /\ visited = {}
    /\ chain = <<>>
    /\ cursor = 1
    /\ callSid = NoId
    /\ appended = <<>>
    /\ CallIdle

LinkFrame == <<suburbanServices, rakecycles, conflictingLinks, query, err, passes,
               firstFlags, CallFrame>>

\* for sv in idMap.values(): one iteration.
BuildLink ==
    /\ pc = "build"
    /\ cursor <= Len(IdMapKeys(suburbanServices))
    /\ adj' = AddLink(adj, suburbanServices, IdMapKeys(suburbanServices)[cursor])
    /\ cursor' = cursor + 1
    /\ UNCHANGED <<LinkFrame, allCyclesWtt, pc, visited, chain, callSid, appended>>

\* The link loop is over: visited = set().
BuildDone ==
    /\ pc = "build"
    /\ cursor > Len(IdMapKeys(suburbanServices))
    /\ visited' = {}
    /\ cursor' = 1
    /\ pc' = "scan"
    /\ UNCHANGED <<LinkFrame, allCyclesWtt, adj, chain, callSid, appended>>

\* for sid in idMap: one iteration up to the call of followChain.
ScanKey ==
    /\ pc = "scan"
    /\ cursor <= Len(IdMapKeys(suburbanServices))
    /\ LET sid == IdMapKeys(suburbanServices)[cursor] IN
       IF sid \in visited \/ adj[sid].prev # NoId \/ adj[sid].next = NoId
       THEN /\ cursor' = cursor + 1
            /\ UNCHANGED <<pc, chain, callSid>>
       ELSE /\ chain' = <<>>
            /\ callSid' = sid
            /\ pc' = "follow"
            /\ UNCHANGED cursor
    /\ UNCHANGED <<LinkFrame, allCyclesWtt, adj, visited, appended>>

\* One call of followChain(sid, chain); the recursive call is its last
\* statement, so a return ends every pending call.
FollowChain ==
    /\ pc = "follow"
    /\ Len(appended) < MaxAppends
    /\ IF FollowReturns(callSid, visited, suburbanServices)
       THEN /\ pc' = "append"
            /\ UNCHANGED <<visited, chain, appended, callSid>>
       ELSE /\ visited' = visited \cup {callSid}
            /\ chain' = Append(chain, IdMap(suburbanServices, callSid))
            /\ appended' = Append(appended, callSid)
            /\ IF adj[callSid].next # NoId
               THEN callSid' = adj[callSid].next /\ UNCHANGED pc
               ELSE pc' = "append" /\ UNCHANGED callSid
    /\ UNCHANGED <<LinkFrame, allCyclesWtt, adj, cursor>>

\* if chain: self.allCyclesWtt.append(chain)
AppendChain ==
    /\ pc = "append"
    /\ allCyclesWtt' = IF chain # <<>> THEN Append(allCyclesWtt, chain)
                       ELSE allCyclesWtt
    /\ cursor' = cursor + 1
    /\ pc' = "scan"
    /\ UNCHANGED <<LinkFrame, adj, visited, chain, callSid, appended>>

\* The loop over idMap is over: makeRakeCyclePathsSV returns.
ScanDone ==
    /\ pc = "scan"
    /\ cursor > Len(IdMapKeys(suburbanServices))
    /\ pc' = "done"
    /\ UNCHANGED <<LinkFrame, allCyclesWtt, adj, visited, chain, cursor, callSid,
                   appended>>

NextLink == BuildLink \/ BuildDone \/ ScanKey \/ FollowChain \/ AppendChain \/ ScanDone

\* The interpreter runs the function to its end: a step that can be taken is
\* taken.
SpecLink == InitLink /\ [][NextLink]_vars /\ WF_vars(NextLink)

(***************************************************************************)
(* Properties of the link resolver                                         *)
(***************************************************************************)

\* No service id has been appended to a chain twice.
AppendedOnce ==
    \A i, j \in DOMAIN appended : i # j => appended[i] # appended[j]

\* C10: makeRakeCyclePathsSV terminates for every assignment of linkedTo
\* references, and no service-id node is appended to a chain twice, in one
\* chain or in two.
LinkResolverTerminates == <>(pc = "done") /\ []AppendedOnce

\* The resolver has returned after following a chain that came back to a
\* visited id, with a self-link and a link to an unregistered id in the list.
LinkResolverTerminatesWitness ==
    /\ pc = "done"
    /\ \E c \in DOMAIN allCyclesWtt :
          LET last == suburbanServices[allCyclesWtt[c][Len(allCyclesWtt[c])]]
          IN  adj[last.serviceId[1]].next \in visited
    /\ \E k \in DOMAIN suburbanServices :
          suburbanServices[k].linkedTo = suburbanServices[k].serviceId[1]
    /\ \E k \in DOMAIN suburbanServices :
          /\ suburbanServices[k].linkedTo # NoId
          /\ LinkTarget(suburbanServices[k].linkedTo) \notin DOMAIN adj

\* The input link graph: its nodes are the registered service ids, and there
\* is an edge from the first id of a service to the registered id its
\* linkedTo cell names.
LinkNodes == SeqToSet(IdMapKeys(suburbanServices))

LinkEdge(u, v) ==
    /\ v \in LinkNodes
    /\ \E k \in DOMAIN suburbanServices :
          /\ suburbanServices[k].serviceId[1] = u
          /\ suburbanServices[k].linkedTo # NoId
          /\ LinkTarget(suburbanServices[k].linkedTo) = v

\* The nodes reached from the nodes of S over one edge or more.
ReachedFrom(S) ==
    LET RECURSIVE Grow(_, _)
        Grow(R, n) ==
            IF n = 0 THEN R
            ELSE Grow(R \cup {v \in LinkNodes : \E u \in S \cup R : LinkEdge(u, v)},
                      n - 1)
    IN  Grow({}, Cardinality(LinkNodes))

LinkGraphAcyclic == \A u \in LinkNodes : u \notin ReachedFrom({u})

\* A node with no predecessor and a successor.
ChainStarts ==
    {u \in LinkNodes : /\ \A w \in LinkNodes : ~LinkEdge(w, u)
                       /\ \E v \in LinkNodes : LinkEdge(u, v)}

\* C11: for an input link graph with no cycles, the number of chains
\* makeRakeCyclePathsSV appends to allCyclesWtt is the number of nodes with
\* no predecessor and a successor; each such node is the first element of
\* exactly one chain, and a node that is neither a chain start nor reached
\* from one is in no chain.
ChainCount ==
    (pc = "done" /\ LinkGraphAcyclic) =>
        /\ Len(allCyclesWtt) = Cardinality(ChainStarts)
        /\ \A u \in ChainStarts :
              Cardinality({c \in DOMAIN allCyclesWtt :
                             allCyclesWtt[c][1] = IdMap(suburbanServices, u)}) = 1
        /\ \A u \in LinkNodes \ (ChainStarts \cup ReachedFrom(ChainStarts)) :
              u \notin SeqToSet(appended)

\* The resolver has returned on a graph with no cycles in which two chain
\* starts link to the same service and a further node is isolated.
ChainCountWitness ==
    /\ pc = "done"
    /\ LinkGraphAcyclic
    /\ Len(allCyclesWtt) = 2
    /\ \E v \in LinkNodes : Cardinality({u \in ChainStarts : LinkEdge(u, v)}) = 2
    /\ \E u \in LinkNodes : /\ \A w \in LinkNodes : ~LinkEdge(w, u) /\ ~LinkEdge(u, w)
                             /\ u \notin SeqToSet(appended)

(***************************************************************************)
(* SpecSession: a session on a reconciled timetable.  generateRakeCycles   *)
(* ends with assignRakes; every Gardi.generate_visualization after it is   *)
(* a FilterEngine pass followed by the GraphBuilder calls, and             *)
(* RakeOperations.convert_to_ac is called from the rake-link table the     *)
(* first visualization has filled.                                         *)
(***************************************************************************)

MaxOps == 3

\* The body of the loop of convert_to_ac from cycle i on; links is the
\* `converted` list so far.
ConvertLoop(rcs, svs, names, i, links) ==
    LET RECURSIVE Loop(_, _, _, _)
        Loop(r, v, k, done) ==
            IF k > Len(r)
            THEN [rakecycles |-> r, suburbanServices |-> v,
                  result |-> [converted |-> Len(done), links |-> done]]
            ELSE IF r[k].linkName \notin SeqToSet(names) THEN Loop(r, v, k + 1, done)
            ELSE IF r[k].hasRake /\ r[k].isAC THEN Loop(r, v, k + 1, done)
            ELSE Loop([r EXCEPT ![k].isAC = IF r[k].hasRake THEN TRUE ELSE @],
                      [x \in DOMAIN v |->
                          IF x \in SeqToSet(r[k].servicePath)
                          THEN [v[x] EXCEPT !.needsACRake = TRUE] ELSE v[x]],
                      k + 1, Append(done, r[k].linkName))
    IN  Loop(rcs, svs, i, links)

\* A conversion that does not skip the cycles whose rake is AC already.
convert_to_ac_noskip(rcs, svs, names) ==
    LET named == {i \in DOMAIN rcs : rcs[i].linkName \in SeqToSet(names)}
        RECURSIVE Names(_)
        Names(k) == IF k > Len(rcs) THEN <<>>
                    ELSE (IF k \in named THEN <<rcs[k].linkName>> ELSE <<>>)
                         \o Names(k + 1)
    IN  [rakecycles |-> [i \in DOMAIN rcs |->
                            IF i \in named THEN [rcs[i] EXCEPT !.isAC = TRUE]
                            ELSE rcs[i]],
         suburbanServices |->
            [x \in DOMAIN svs |->
                IF \E i \in named : x \in SeqToSet(rcs[i].servicePath)
                THEN [svs[x] EXCEPT !.needsACRake = TRUE] ELSE svs[x]],
         result |-> [converted |-> Len(Names(1)), links |-> Names(1)]]

\* RakeOperations.convert_to_ac
convert_to_ac(rcs, svs, names) ==
    IF names = <<>>
    THEN [rakecycles |-> rcs, suburbanServices |-> svs,
          result |-> [converted |-> 0, links |-> <<>>]]
    ELSE ConvertLoop(rcs, svs, names, 1, <<>>)

\* The services on the path of some cycle.
OnPath(rcs) == UNION {SeqToSet(rcs[i].servicePath) : i \in DOMAIN rcs}

\* The last index at which the cycle list holds the link name.
LastNamed(rcs, name) ==
    CHOOSE i \in DOMAIN rcs :
        /\ rcs[i].linkName = name
        /\ \A j \in DOMAIN rcs : rcs[j].linkName = name => j <= i

\* TimeTable.storeOriginalACStates: the dictionary, as its link part and its
\* "svc_" part.
storeOriginalACStates(rcs, svs) ==
    [links |-> [n \in {rcs[i].linkName : i \in {j \in DOMAIN rcs : rcs[j].hasRake}} |->
                   rcs[LastNamed(rcs, n)].isAC],
     svcs |-> [sid \in {svs[k].serviceId[1] : k \in OnPath(rcs)} |->
                  LET k == CHOOSE x \in OnPath(rcs) : svs[x].serviceId[1] = sid
                  IN  svs[k].needsACRake]]

\* A reset that restores the rakes and leaves the services as they are.
resetACStates_rakes(rcs, svs, orig) ==
    IF orig = <<>> THEN [rakecycles |-> rcs, suburbanServices |-> svs]
    ELSE [rakecycles |->
             [i \in DOMAIN rcs |->
                 IF rcs[i].hasRake /\ rcs[i].linkName \in DOMAIN orig.links
                 THEN [rcs[i] EXCEPT !.isAC = orig.links[rcs[i].linkName]]
                 ELSE rcs[i]],
          suburbanServices |-> svs]

\* TimeTable.resetACStates
resetACStates(rcs, svs, orig) ==
    IF orig = <<>> THEN [rakecycles |-> rcs, suburbanServices |-> svs]
    ELSE [rakecycles |->
             [i \in DOMAIN rcs |->
                 IF rcs[i].hasRake /\ rcs[i].linkName \in DOMAIN orig.links
                 THEN [rcs[i] EXCEPT !.isAC = orig.links[rcs[i].linkName]]
                 ELSE rcs[i]],
          suburbanServices |->
             [k \in DOMAIN svs |->
                 IF k \in OnPath(rcs) /\ svs[k].serviceId[1] \in DOMAIN orig.svcs
                 THEN [svs[k] EXCEPT !.needsACRake = orig.svcs[svs[k].serviceId[1]]]
                 ELSE svs[k]]]

\* GraphBuilder.post_process_station_mode: in station mode the loop sets
\* needsACRake on the path services of every cycle whose index i (from 0)
\* is below len(wtt.rakecycles) / 2 + 10.
post_process_station_mode(rcs, svs, qq) ==
    IF qq.type # "STATION" THEN svs
    ELSE [k \in DOMAIN svs |->
             IF \E i \in DOMAIN rcs : /\ 2 * (i - 1) < Len(rcs) + 20
                                      /\ k \in SeqToSet(rcs[i].servicePath)
             THEN [svs[k] EXCEPT !.needsACRake = TRUE]
             ELSE svs[k]]

\* What a session can see of the equipment and visibility state.
CoreState(rcs, svs) ==
    [isAC |-> [i \in DOMAIN rcs |-> rcs[i].isAC],
     rakeSize |-> [i \in DOMAIN rcs |-> rcs[i].rakeSize],
     needsACRake |-> [k \in DOMAIN svs |-> svs[k].needsACRake],
     flags |-> Flags(rcs, svs)]

\* The timetable and the last call at the moment a call is made.
Snapshot == [rakecycles |-> rakecycles, suburbanServices |-> suburbanServices,
             pc |-> pc, arg |-> arg, ret |-> ret]

\* The three service columns of the session: the k-th one stops as
\* SessionEvents[k] says when it lies on an active path.
SessionSvcs == {1, 2, 3}

SessionEvents ==
    <<  <<[atStation |-> "DADAR", atTime |-> 500, render |-> TRUE],
          [atStation |-> "VIRAR", atTime |-> 600, render |-> TRUE]>>,
        <<[atStation |-> "VIRAR", atTime |-> 600, render |-> TRUE],
          [atStation |-> "DADAR", atTime |-> 660, render |-> TRUE]>>,
        <<[atStation |-> "DADAR", atTime |-> 600, render |-> TRUE]>>  >>

\* The "n CAR" requirement of the k-th column header (15 when it names none).
SessionSizes == <<RakeSizeReqDefault, 12, 20>>

\* The paths of the active cycles: one cycle or two, a service on no path,
\* on one, or on the paths of both.
SessionLayouts ==
    { << <<1, 2>> >>, << <<3>> >>, << <<1, 2>>, <<3>> >>, << <<2, 1>>, <<3, 1>> >>,
      << <<1>>, <<2, 3>> >>, << <<2>>, <<2>> >> }

\* The queries the callbacks have set before a visualization.
SessionQueries ==
    {qq \in Queries :
        /\ qq.inTimePeriod = <<500, 600>>
        /\ qq.passingThrough = <<>> /\ qq.endStation = NoStation
        /\ qq.inDirection = <<>>
        /\ qq.type = "STATION" => qq.startStation = NoStation /\ qq.ac = "all"}

\* The selections of the rake-link table handed to convert_to_ac.
SessionNames == {<<>>, <<"A">>, <<"A", "B">>, <<"Z">>}

\* The timetable as generateRakeCycles has it before its last statement:
\* the active cycles have their paths, the services on them their events.
InitSession ==
    /\ \E L \in SessionLayouts, ac \in [SessionSvcs -> BOOLEAN] :
          /\ suburbanServices =
                [k \in SessionSvcs |->
                    [serviceId |-> <<ServiceNames[k]>>,
                     direction |-> IF k % 2 = 1 THEN "UP" ELSE "DOWN",
                     needsACRake |-> ac[k], rakeSizeReq |-> SessionSizes[k],
                     linkedTo |-> NoId,
                     events |-> IF \E i \in DOMAIN L : k \in SeqToSet(L[i])
                                THEN SessionEvents[k] ELSE <<>>,
                     render |-> TRUE]]
          /\ rakecycles = [i \in DOMAIN L |->
                              NewRakeCycle(i, PathIds(L[i], suburbanServices), L[i])]
    /\ conflictingLinks = <<>>
    /\ allCyclesWtt = <<>>
    /\ query = DefaultQuery
    /\ pc = "validated"
    /\ err = ""
    /\ passes = 0
    /\ firstFlags = <<>>
    /\ LinkIdle
    /\ CallIdle

SessionFrame == <<conflictingLinks, allCyclesWtt, firstFlags, adj, visited, chain,
                  cursor, callSid, appended, allServices, filterStates>>

\* generateRakeCycles: self.assignRakes()
AssignRakes ==
    /\ pc = "validated"
    /\ before' = Snapshot
    /\ rakecycles' = assignRakes(rakecycles, suburbanServices)
    /\ pc' = "assigned"
    /\ UNCHANGED <<suburbanServices, query, err, passes, originalACStates, arg, ret,
                   SessionFrame>>

\* generate_visualization up to the end of the FilterEngine pass:
\* storeOriginalACStates the first time and resetACStates afterwards, then
\* reset_all_flags and apply_filters.  A pass that raises ends the handler.
FilterStep ==
    /\ pc \in {"assigned", "idle"}
    /\ passes < MaxOps
    /\ \E qq \in SessionQueries :
          LET r == resetACStates(rakecycles, suburbanServices, originalACStates)
              w == FilterPass(Wtt(r.rakecycles, r.suburbanServices, ""), qq)
          IN  /\ query' = qq
              /\ originalACStates' =
                    IF originalACStates = <<>>
                    THEN storeOriginalACStates(rakecycles, suburbanServices)
                    ELSE originalACStates
              /\ rakecycles' = w.rakecycles
              /\ suburbanServices' = w.suburbanServices
              /\ err' = w.err
              /\ pc' = IF w.err = "" THEN "filtered" ELSE "idle"
    /\ before' = Snapshot
    /\ arg' = <<>>
    /\ ret' = <<>>
    /\ passes' = passes + 1
    /\ UNCHANGED SessionFrame

\* The rest of generate_visualization: build_figure,
\* post_process_station_mode and highlight_links.  Only the second writes to
\* the timetable.
RenderStep ==
    /\ pc = "filtered"
    /\ before' = Snapshot
    /\ suburbanServices' = post_process_station_mode(rakecycles, suburbanServices, query)
    /\ pc' = "idle"
    /\ UNCHANGED <<rakecycles, query, err, passes, originalACStates, arg, ret,
                   SessionFrame>>

\* handle_ac_conversion: self.gardi.convert_to_ac(selected_links)
ConvertToAC ==
    /\ pc = "idle"
    /\ passes < MaxOps
    /\ \E names \in SessionNames :
          LET c == convert_to_ac(rakecycles, suburbanServices, names) IN
          /\ arg' = names
          /\ ret' = c.result
          /\ rakecycles' = c.rakecycles
          /\ suburbanServices' = c.suburbanServices
    /\ before' = Snapshot
    /\ passes' = passes + 1
    /\ UNCHANGED <<query, pc, err, originalACStates, SessionFrame>>

NextSession == AssignRakes \/ FilterStep \/ RenderStep \/ ConvertToAC

SpecSession == InitSession /\ [][NextSession]_vars

(***************************************************************************)
(* Properties of the session                                               *)
(***************************************************************************)

\* convert_to_ac has just returned.
Converted == pc = "idle" /\ ret # <<>>

\* The cycles whose rake the last call turned from non-AC to AC.
TurnedAC ==
    {i \in DOMAIN rakecycles : ~before.rakecycles[i].isAC /\ rakecycles[i].isAC}

\* C12: after convert_to_ac(wtt, names) every active cycle whose link name is
\* in names has an AC rake and needsACRake set on every service of its path,
\* also when the rake was AC before the call while a path service was not;
\* 'links' lists exactly the link names whose rake the call turned from
\* non-AC to AC, and 'converted' is its length.
ConvertEffect ==
    Converted =>
        /\ \A i \in DOMAIN rakecycles :
              rakecycles[i].linkName \in SeqToSet(arg) =>
                 /\ rakecycles[i].isAC
                 /\ \A k \in SeqToSet(rakecycles[i].servicePath) :
                       suburbanServices[k].needsACRake
        /\ SeqToSet(ret.links) = {rakecycles[i].linkName : i \in TurnedAC}
        /\ Len(ret.links) = Cardinality(TurnedAC)
        /\ ret.converted = Len(ret.links)

\* The last call left every cycle and every service as it found them.
CallChangedNothing ==
    rakecycles = before.rakecycles /\ suburbanServices = before.suburbanServices

\* C13: a second convert_to_ac with the names of the call before it returns
\* zero conversions and changes nothing; a call that names only cycles whose
\* rake is AC already returns zero conversions; a call with an empty list or
\* with names no cycle has returns zero conversions and leaves every rake,
\* service, event and visibility flag unchanged; no call changes the rake of
\* a cycle whose name is not in the list.
ConvertIdempotent ==
    Converted =>
        LET named == {i \in DOMAIN rakecycles :
                         rakecycles[i].linkName \in SeqToSet(arg)}
        IN  /\ (before.ret # <<>> /\ before.arg = arg) =>
                  ret.converted = 0 /\ ret.links = <<>> /\ CallChangedNothing
            /\ (\A i \in named : before.rakecycles[i].isAC) => ret.converted = 0
            /\ named = {} => ret.converted = 0 /\ CallChangedNothing
            /\ \A i \in DOMAIN rakecycles \ named :
                  /\ rakecycles[i].hasRake = before.rakecycles[i].hasRake
                  /\ rakecycles[i].isAC = before.rakecycles[i].isAC
                  /\ rakecycles[i].rakeSize = before.rakecycles[i].rakeSize

\* convert_to_ac has been called twice in a row with the same names, the
\* first call converted a link, and a cycle outside the names was left alone.
ConvertIdempotentWitness ==
    /\ Converted
    /\ before.ret # <<>>
    /\ before.arg = arg
    /\ before.ret.converted >= 1
    /\ ret.converted = 0
    /\ \E i \in DOMAIN rakecycles : rakecycles[i].linkName \notin SeqToSet(arg)

(***************************************************************************)
(* SpecTime: StationEvent._timeToMinutes.  A time text is a sequence of    *)
(* characters; the float the function returns is the pair                  *)
(* <<whole minutes, sixtieths of a minute>>, and None is <<>>.             *)
(***************************************************************************)

Digits == <<"0", "1", "2", "3", "4", "5", "6", "7", "8", "9">>

DigitValue(c) == (CHOOSE d \in DOMAIN Digits : Digits[d] = c) - 1

IsDigit(c) == \E d \in DOMAIN Digits : Digits[d] = c

\* str.strip(): the text without its leading and trailing blanks.
Strip(text) ==
    LET inner == {i \in DOMAIN text : text[i] # " "}
    IN  IF inner = {} THEN <<>>
        ELSE LET lo == CHOOSE i \in inner : \A j \in inner : i <= j
                 hi == CHOOSE i \in inner : \A j \in inner : j <= i
             IN  SubSeq(text, lo, hi)

\* The fields of the text between its colons.
Fields(text) ==
    LET RECURSIVE Split(_, _, _)
        Split(i, cur, done) ==
            IF i > Len(text) THEN Append(done, cur)
            ELSE IF text[i] = ":" THEN Split(i + 1, <<>>, Append(done, cur))
            ELSE Split(i + 1, Append(cur, text[i]), done)
    IN  Split(1, <<>>, <<>>)

\* The number a %H, %M or %S directive reads from a field: one digit or two,
\* at most `most`; -1 when the field does not match the directive.
FieldValue(f, most) ==
    IF Len(f) \notin {1, 2} \/ \E i \in DOMAIN f : ~IsDigit(f[i]) THEN -1
    ELSE LET n == IF Len(f) = 1 THEN DigitValue(f[1])
                  ELSE 10 * DigitValue(f[1]) + DigitValue(f[2])
         IN  IF n <= most THEN n ELSE -1

\* datetime.strptime(text, "%H:%M:%S") for n = 3 and (text, "%H:%M") for
\* n = 2: <<hour, minute, second>>, or <<>> for ValueError.
strptime(text, n) ==
    LET f == Fields(text) IN
    IF Len(f) # n THEN <<>>
    ELSE LET h == FieldValue(f[1], 23)
             mi == FieldValue(f[2], 59)
             sec == IF n = 3 THEN FieldValue(f[3], 59) ELSE 0
         IN  IF h = -1 \/ mi = -1 \/ sec = -1 THEN <<>> ELSE <<h, mi, sec>>

\* minutes = t.hour * 60 + t.minute + t.second / 60, then the wrap-around.
WrapAround(t, limit) ==
    LET whole == t[1] * 60 + t[2]
    IN  <<IF whole < limit THEN whole + 1440 ELSE whole, t[3]>>

\* The wrap-around applied to 02:45 as well.
timeToMinutes_inclusive(text) ==
    IF text = <<>> THEN <<>>
    ELSE IF strptime(Strip(text), 3) # <<>> THEN WrapAround(strptime(Strip(text), 3), 166)
    ELSE IF strptime(Strip(text), 2) # <<>> THEN WrapAround(strptime(Strip(text), 2), 166)
    ELSE <<>>

\* StationEvent._timeToMinutes
timeToMinutes(text) ==
    IF text = <<>> THEN <<>>
    ELSE IF strptime(Strip(text), 3) # <<>> THEN WrapAround(strptime(Strip(text), 3), 165)
    ELSE IF strptime(Strip(text), 2) # <<>> THEN WrapAround(strptime(Strip(text), 2), 165)
    ELSE <<>>

\* "H:MM" or "HH:MM", with ":SS" when sec >= 0.
TimeText(h, mi, sec, pad) ==
    LET two(n) == <<Digits[(n \div 10) + 1], Digits[(n % 10) + 1]>>
        hh == IF h < 10 /\ ~pad THEN <<Digits[h + 1]>> ELSE two(h)
    IN  hh \o <<":">> \o two(mi) \o (IF sec >= 0 THEN <<":">> \o two(sec) ELSE <<>>)

\* Hours, minutes and seconds of the time cells tried (-1: no seconds).
CellHours == {0, 1, 2, 3, 9, 23}
CellMinutes == {0, 15, 30, 44, 45, 59}
CellSeconds == {-1, 0, 30, 59}

\* Cells that are no well-formed time.
BadTexts ==
    { <<>>, <<" ">>, <<"2", "4", ":", "0", "0">>, <<"1", "0", ":", "6", "0">>,
      <<"0", "2", ".", "4", "5">>, <<"1", "0", ":", "0", "0", ":", "6", "0">>,
      <<"1", "/", "1", "/", "2", "4", " ", "0", "9", ":", "1", "5">> }

\* A call StationEvent.__init__ is about to make: before holds the time the
\* text was written from, <<>> for a text that is no time.
InitTime ==
    /\ \/ \E h \in CellHours, mi \in CellMinutes, sec \in CellSeconds,
            pad \in BOOLEAN, blank \in BOOLEAN :
            /\ h >= 10 => pad
            /\ arg = (IF blank THEN <<" ">> ELSE <<>>) \o TimeText(h, mi, sec, pad)
                     \o (IF blank THEN <<" ">> ELSE <<>>)
            /\ before = <<h, mi, IF sec >= 0 THEN sec ELSE 0>>
       \/ \E t \in BadTexts : arg = t /\ before = <<>>
    /\ ret = <<>>
    /\ originalACStates = <<>>
    /\ allServices = <<>> /\ filterStates = <<>>
    /\ suburbanServices = <<>>
    /\ rakecycles = <<>>
    /\ conflictingLinks = <<>>
    /\ allCyclesWtt = <<>>
    /\ query = DefaultQuery
    /\ pc = "call"
    /\ err = ""
    /\ passes = 0
    /\ firstFlags = <<>>
    /\ LinkIdle

\* self.atTime = self._timeToMinutes(time)
TimeToMinutes ==
    /\ pc = "call"
    /\ ret' = timeToMinutes(arg)
    /\ pc' = "returned"
    /\ UNCHANGED <<suburbanServices, rakecycles, conflictingLinks, allCyclesWtt,
                   query, err, passes, firstFlags, adj, visited, chain, cursor,
                   callSid, appended, originalACStates, arg, before, allServices,
                   filterStates>>

NextTime == TimeToMinutes

SpecTime == InitTime /\ [][NextTime]_vars

\* C14: for every well-formed time text H:MM or H:MM:SS the event time is
\* hour*60+minute (+seconds/60), plus 1440 exactly when that value is below
\* 165; "02:30" gives 1590, "09:15" gives 555, 02:45 is not shifted, and
\* every non-null event time lies in [165, 1605).
TimeWrapAround ==
    pc = "returned" =>
        /\ before # <<>> =>
              LET value == before[1] * 60 + before[2] IN
              /\ ret # <<>>
              /\ ret[1] = (IF value < 165 THEN value + 1440 ELSE value)
              /\ ret[2] = before[3]
        /\ arg = <<"0", "2", ":", "3", "0">> => ret = <<1590, 0>>
        /\ arg = <<"0", "9", ":", "1", "5">> => ret = <<555, 0>>
        /\ arg = <<"0", "2", ":", "4", "5">> => ret = <<165, 0>>
        /\ ret # <<>> => 165 <= ret[1] /\ ret[1] < 1605

\* The function has returned for 02:44:59, the last time that is shifted.
TimeWrapAroundWitness ==
    /\ pc = "returned"
    /\ before = <<2, 44, 59>>
    /\ ret = <<1604, 59>>

(***************************************************************************)
(* SpecEvents: the loop of generateRakeCycles that gives the services of   *)
(* the active paths their events (Service.generateStationEvents) and       *)
(* durations, one service per step.  A column is a sequence of rows        *)
(* [station, text, mark]: the station of the row, the cell of the service  *)
(* and the A/D mark of the row.                                            *)
(***************************************************************************)

\* The fields of a text between the occurrences of a separator.
SplitAt(text, sep) ==
    LET RECURSIVE Split(_, _, _)
        Split(i, cur, done) ==
            IF i > Len(text) THEN Append(done, cur)
            ELSE IF text[i] = sep THEN Split(i + 1, <<>>, Append(done, cur))
            ELSE Split(i + 1, Append(cur, text[i]), done)
    IN  Split(1, <<>>, <<>>)

\* rTimePattern without the date prefix:
\* ([01]?\d|2[0-3]):[0-5]\d(?::[0-5]\d)?$ matches the whole text.
IsTime(text) ==
    LET f == SplitAt(text, ":")
        digits(x) == \A i \in DOMAIN x : IsDigit(x[i])
    IN  /\ Len(f) \in {2, 3}
        /\ FieldValue(f[1], 23) # -1
        /\ \A n \in 2..Len(f) : Len(f[n]) = 2 /\ digits(f[n]) /\ FieldValue(f[n], 59) # -1

\* (?:\d{1,2}/\d{1,2}/\d{2,4}\s+) matches the whole text.
IsDatePrefix(text) ==
    LET f == SplitAt(Strip(text), "/")
        digits(x) == \A i \in DOMAIN x : IsDigit(x[i])
    IN  /\ text # <<>> /\ text[Len(text)] = " "
        /\ Len(f) = 3
        /\ \A n \in 1..3 : digits(f[n])
        /\ Len(f[1]) \in {1, 2} /\ Len(f[2]) \in {1, 2} /\ Len(f[3]) \in {2, 3, 4}

\* rTimePattern matches the text from position i to its end.
MatchesFrom(text, i) ==
    LET rest == SubSeq(text, i, Len(text)) IN
    \/ IsTime(rest)
    \/ \E j \in 1..Len(rest) :
          IsDatePrefix(SubSeq(rest, 1, j)) /\ IsTime(SubSeq(rest, j + 1, Len(rest)))

\* rTimePattern.search(text).group(0); <<>> when there is no match.
TimeSearch(text) ==
    LET starts == {i \in DOMAIN text : MatchesFrom(text, i)}
    IN  IF starts = {} THEN <<>>
        ELSE SubSeq(text, CHOOSE i \in starts : \A j \in starts : i <= j, Len(text))

\* The float of _timeToMinutes as the event's atTime; the cells of the grid
\* carry no seconds, so it is the whole part.
AtTime(text) == IF timeToMinutes(text) = <<>> THEN NoTime ELSE timeToMinutes(text)[1]

NewEvent(st, text) == [atStation |-> st, atTime |-> AtTime(text), render |-> TRUE]

\* The events one row of the column adds (the body of the loop of
\* generateStationEvents).
RowEvents(col, r) ==
    LET tCell == TimeSearch(col[r].text) IN
    IF tCell = <<>> THEN <<>>
    ELSE IF col[r].mark = "A"
         THEN <<NewEvent(col[r].station, Strip(tCell))>>
              \o (IF r < Len(col) /\ col[r + 1].mark = "D"
                     /\ Strip(col[r + 1].text) # <<>>
                     /\ MatchesFrom(Strip(col[r + 1].text), 1)
                  THEN <<NewEvent(col[r].station, Strip(col[r + 1].text))>>
                  ELSE <<>>)
         ELSE <<NewEvent(col[r].station, Strip(tCell))>>

\* Service.generateStationEvents: what it appends to self.events.
generateStationEvents(col) ==
    LET RECURSIVE Rows(_)
        Rows(r) == IF r > Len(col) THEN <<>> ELSE RowEvents(col, r) \o Rows(r + 1)
    IN  Rows(1)

\* self.events after generateStationEvents has run on the service.
EventsAfter(svc) == svc.events \o generateStationEvents(svc.rawServiceCol)

\* The services the loop visits, in its order.
Visits(rcs) ==
    LET RECURSIVE Cat(_)
        Cat(i) == IF i > Len(rcs) THEN <<>> ELSE rcs[i].servicePath \o Cat(i + 1)
    IN  Cat(1)

Row(st, text, mark) == [station |-> st, text |-> text, mark |-> mark]

DateText == <<"1", "/", "1", "/", "2", "4", " ">>

\* The columns of the grid tried: a day run, a run across midnight, a run
\* across 02:45, an arrival/departure pair, a cell with a date in front of
\* the time at the start and in the middle of the run, a cell that is no
\* time, and a column with no time at all.
Columns ==
    { <<Row("DADAR", TimeText(9, 15, -1, TRUE), ""),
        Row("VIRAR", TimeText(9, 45, -1, TRUE), "")>>,
      <<Row("DADAR", TimeText(23, 50, -1, TRUE), ""),
        Row("VIRAR", TimeText(0, 10, -1, TRUE), "")>>,
      <<Row("DADAR", TimeText(2, 30, -1, TRUE), ""),
        Row("VIRAR", TimeText(2, 50, -1, TRUE), "")>>,
      <<Row("DADAR", TimeText(9, 15, -1, TRUE), "A"),
        Row("DADAR", TimeText(9, 16, -1, TRUE), "D"),
        Row("VIRAR", TimeText(9, 45, -1, FALSE), "")>>,
      <<Row("DADAR", DateText \o TimeText(9, 15, -1, TRUE), ""),
        Row("VIRAR", TimeText(9, 45, -1, TRUE), "")>>,
      <<Row("DADAR", TimeText(9, 15, -1, TRUE), ""),
        Row("VIRAR", DateText \o TimeText(9, 30, -1, TRUE), ""),
        Row("DADAR", TimeText(9, 45, -1, TRUE), "")>>,
      <<Row("DADAR", TimeText(9, 15, -1, TRUE), ""),
        Row("VIRAR", <<".", ".">>, "")>>,
      <<Row("DADAR", <<>>, ""), Row("VIRAR", <<".", ".">>, "")>> }

\* The timetable after validateRakeCycles: the active cycles have their
\* paths, no service has events yet.
InitEvents ==
    /\ \E L \in SessionLayouts, col \in [SessionSvcs -> Columns] :
          /\ suburbanServices =
                [k \in SessionSvcs |->
                    [serviceId |-> <<ServiceNames[k]>>,
                     direction |-> IF k % 2 = 1 THEN "UP" ELSE "DOWN",
                     needsACRake |-> FALSE, rakeSizeReq |-> SessionSizes[k],
                     linkedTo |-> NoId, rawServiceCol |-> col[k], events |-> <<>>,
                     render |-> TRUE]]
          /\ rakecycles = [i \in DOMAIN L |->
                              NewRakeCycle(i, PathIds(L[i], suburbanServices), L[i])]
    /\ conflictingLinks = <<>>
    /\ allCyclesWtt = <<>>
    /\ query = DefaultQuery
    /\ pc = "reconciled"
    /\ err = ""
    /\ passes = 0
    /\ firstFlags = <<>>
    /\ adj = <<>> /\ visited = {} /\ chain = <<>> /\ cursor = 1 /\ callSid = NoId
    /\ appended = <<>>
    /\ CallIdle

EventsFrame == <<rakecycles, conflictingLinks, allCyclesWtt, query, passes, firstFlags,
                 adj, visited, chain, callSid, appended, CallFrame>>

\* One iteration of `for svc in rc.servicePath`: generateStationEvents, the
\* test for no events, computeDurationMinutes.
GenerateEvents ==
    /\ pc = "reconciled"
    /\ cursor <= Len(Visits(rakecycles))
    /\ LET k == Visits(rakecycles)[cursor]
           evs == EventsAfter(suburbanServices[k])
       IN  /\ suburbanServices' = [suburbanServices EXCEPT ![k].events = evs]
           /\ err' = IF evs = <<>> THEN "ValueError"
                     ELSE IF evs[1].atTime = NoTime \/ evs[Len(evs)].atTime = NoTime
                          THEN "TypeError"
                     ELSE ""
           /\ pc' = IF err' = "" THEN "reconciled" ELSE "failed"
    /\ cursor' = cursor + 1
    /\ UNCHANGED EventsFrame

\* The loop is over.
EventsDone ==
    /\ pc = "reconciled"
    /\ cursor > Len(Visits(rakecycles))
    /\ pc' = "timed"
    /\ UNCHANGED <<suburbanServices, err, cursor, EventsFrame>>

NextEvents == GenerateEvents \/ EventsDone

SpecEvents == InitEvents /\ [][NextEvents]_vars

\* The clock times of the time cells of a column, in minutes of the day.
ClockTimes(col) ==
    LET RECURSIVE Rows(_)
        Rows(r) ==
            IF r > Len(col) THEN <<>>
            ELSE (IF IsTime(Strip(col[r].text))
                  THEN LET f == SplitAt(Strip(col[r].text), ":")
                       IN  <<FieldValue(f[1], 23) * 60 + FieldValue(f[2], 59)>>
                  ELSE <<>>) \o Rows(r + 1)
    IN  Rows(1)

\* The time cells of the column are times of day in chronological order:
\* they rise down the rows, or pass midnight once and end before the time
\* they began at.
Chronological(col) ==
    LET t == ClockTimes(col)
        drops == {i \in 1..(Len(t) - 1) : t[i + 1] < t[i]}
    IN  /\ \A r \in DOMAIN col : TimeSearch(col[r].text) # <<>> => IsTime(Strip(col[r].text))
        /\ t # <<>>
        /\ Cardinality(drops) <= 1
        /\ drops # {} => t[Len(t)] < t[1]

NonDecreasing(evs) ==
    \A i \in 1..(Len(evs) - 1) : evs[i].atTime <= evs[i + 1].atTime

\* C15: after generateRakeCycles every service on the path of an active
\* cycle has a non-empty event list with times that do not decrease in list
\* order, for every column whose time cells are in chronological order,
\* runs across midnight or across 02:45 and services on more than one path
\* included.
EventOrdering ==
    pc = "timed" =>
        \A i \in DOMAIN rakecycles : \A k \in SeqToSet(rakecycles[i].servicePath) :
            Chronological(suburbanServices[k].rawServiceCol) =>
                /\ suburbanServices[k].events # <<>>
                /\ NonDecreasing(suburbanServices[k].events)

\* C17: a time cell that cannot be converted gives an event with a null
\* time, and the owning service is not invalidated by it: the
\* reconciliation of its cycle, the accumulation of durations included,
\* goes on without an error.
NullTimeNonFatal ==
    \A k \in DOMAIN suburbanServices :
        (\E j \in DOMAIN suburbanServices[k].events :
            suburbanServices[k].events[j].atTime = NoTime) => err = ""

\* C16: in every state a session reaches by filter passes (RAKELINK, SERVICE
\* or STATION, any query) and convert_to_ac calls, every service of
\* suburbanServices with no events has its visibility flag false.
NoEventsNeverVisible ==
    pc \in {"filtered", "idle"} =>
        \A k \in DOMAIN suburbanServices :
            suburbanServices[k].events = <<>> => ~suburbanServices[k].render

\* A service with no events is hidden after a pass, a conversion and a
\* further pass in RAKELINK mode, while a service with events is shown.
NoEventsNeverVisibleWitness ==
    /\ pc = "filtered"
    /\ passes = MaxOps
    /\ query.type = "RAKELINK"
    /\ before.ret # <<>>
    /\ before.ret.converted >= 1
    /\ \E k \in DOMAIN suburbanServices :
          suburbanServices[k].events = <<>> /\ ~suburbanServices[k].render
    /\ \E k \in DOMAIN suburbanServices : suburbanServices[k].render

\* C18: building and post-processing a figure, in any mode, leaves every
\* Service.needsACRake, every Rake.isAC and every visibility flag as the
\* FilterEngine pass before it left them.
RenderLeavesCore ==
    (pc = "idle" /\ before.pc = "filtered") =>
        CoreState(rakecycles, suburbanServices)
            = CoreState(before.rakecycles, before.suburbanServices)

\* The first car-count requirement on the path, in path order; 15 when no
\* service declares one.
FirstSizeReq(path) ==
    LET declared == {j \in DOMAIN path : suburbanServices[path[j]].rakeSizeReq # NoSize}
    IN  IF declared = {} THEN 15
        ELSE suburbanServices[path[CHOOSE j \in declared :
                                      \A x \in declared : j <= x]].rakeSizeReq

\* C19: every surviving cycle is assigned a rake; the rake is AC exactly
\* when some service anywhere on the servicePath requires AC, also when the
\* first service does not, and its car count is the first car-count
\* requirement of a path service in path order, 15 by default.
RakeAssignment ==
    pc = "assigned" =>
        \A i \in DOMAIN rakecycles :
            /\ rakecycles[i].hasRake
            /\ rakecycles[i].isAC <=>
                  \E k \in SeqToSet(rakecycles[i].servicePath) :
                      suburbanServices[k].needsACRake
            /\ rakecycles[i].rakeSize = FirstSizeReq(rakecycles[i].servicePath)

(***************************************************************************)
(* SpecResolve: generateRakeCycles from the chains of makeRakeCyclePathsSV *)
(* to the end of validateRakeCycles: one stub of the summary per step,     *)
(* then the removal of the invalid cycles and the validation.              *)
(***************************************************************************)

\* RakeCycle as parseRakeLinks leaves it: servicePath None, undefinedIds the
\* declared ids no service carries.
StubCycle(i, ids, svs) ==
    LET rc == [NewRakeCycle(i, ids, <<>>) EXCEPT !.pathIsNone = TRUE]
        known == {svs[k].serviceId[1] : k \in DOMAIN svs}
    IN  [f \in DOMAIN rc \cup {"undefinedIds"} |->
            IF f = "undefinedIds" THEN SelectSeq(ids, LAMBDA x : x \notin known)
            ELSE rc[f]]

\* TimeTable.fixPath: the cycle with the returned path assigned, and the
\* exception raised, if any.
fixPath(rc, svs) ==
    LET sid == rc.serviceIds[1]
        known == {svs[k].serviceId[1] : k \in DOMAIN svs}
        index(x) == CHOOSE k \in DOMAIN svs :
                       /\ svs[k].serviceId[1] = x
                       /\ \A j \in DOMAIN svs : svs[j].serviceId[1] = x => j <= k
    IN  IF rc.undefinedIds # <<>>
        THEN [rc |-> [rc EXCEPT !.status = "INVALID", !.servicePath = <<>>,
                                !.pathIsNone = FALSE],
              err |-> ""]
        ELSE IF sid \notin known THEN [rc |-> rc, err |-> "ValueError"]
        ELSE IF \E k \in DOMAIN svs : svs[k].linkedTo = sid
        THEN IF \E j \in DOMAIN rc.serviceIds : rc.serviceIds[j] \notin known
             THEN [rc |-> rc, err |-> "ValueError"]
             ELSE [rc |-> [rc EXCEPT !.servicePath =
                                        [j \in DOMAIN rc.serviceIds |->
                                            index(rc.serviceIds[j])],
                                     !.pathIsNone = FALSE],
                   err |-> ""]
        ELSE [rc |-> [rc EXCEPT !.servicePath = <<>>, !.pathIsNone = TRUE], err |-> ""]

\* The chains whose first service carries the first declared id of the stub.
MatchingChains(rc, chains, svs) ==
    {c \in DOMAIN chains : rc.serviceIds[1] = svs[chains[c][1]].serviceId[1]}

\* One iteration of `for rc in self.rakecycles`: the last matching chain
\* becomes the path; with no match the debug line reads `path`, which no
\* loop has bound when allCyclesWtt is empty, and fixPath is called.
ResolveOne(rc, chains, svs) ==
    LET hits == MatchingChains(rc, chains, svs) IN
    IF hits # {}
    THEN [rc |-> [rc EXCEPT !.servicePath =
                               chains[CHOOSE c \in hits : \A d \in hits : d <= c],
                            !.pathIsNone = FALSE],
          err |-> ""]
    ELSE IF chains = <<>> THEN [rc |-> rc, err |-> "UnboundLocalError"]
    ELSE fixPath(rc, svs)

\* The chains and the linkedTo cells they were followed from, for the
\* services 93001, 93002, ETY1.
ResolveInputs ==
    { [chains |-> <<>>, linkedTo |-> <<NoId, NoId, NoId>>],
      [chains |-> << <<1, 2>> >>, linkedTo |-> <<"93002", NoId, NoId>>],
      [chains |-> << <<2, 1>> >>, linkedTo |-> <<NoId, "93001", NoId>>],
      [chains |-> << <<3, 1, 2>> >>, linkedTo |-> <<"93002", NoId, "93001">>],
      [chains |-> << <<3, 2>>, <<1>> >>, linkedTo |-> <<"93002", NoId, "93002">>] }

\* The ids a stub of the summary declares; 93009 is the id of no service.
StubIds == {"93001", "93002", "ETY1", "93009"}

\* The timetable after makeRakeCyclePathsSV; before holds the stubs as
\* parseRakeLinks made them.
InitResolve ==
    /\ \E in \in ResolveInputs, n \in 1..2 :
       \E ids \in [1..n -> SeqsBetween(StubIds, 1, 2)] :
          /\ suburbanServices =
                [k \in SessionSvcs |->
                    [serviceId |-> <<ServiceNames[k]>>,
                     direction |-> IF k % 2 = 1 THEN "UP" ELSE "DOWN",
                     needsACRake |-> FALSE, rakeSizeReq |-> RakeSizeReqDefault,
                     linkedTo |-> in.linkedTo[k], events |-> <<>>, render |-> TRUE]]
          /\ allCyclesWtt = in.chains
          /\ rakecycles = [i \in 1..n |-> StubCycle(i, ids[i], suburbanServices)]
    /\ before = rakecycles
    /\ conflictingLinks = <<>>
    /\ query = DefaultQuery
    /\ pc = "resolving"
    /\ err = ""
    /\ passes = 0
    /\ firstFlags = <<>>
    /\ adj = <<>> /\ visited = {} /\ chain = <<>> /\ cursor = 1 /\ callSid = NoId
    /\ appended = <<>>
    /\ originalACStates = <<>> /\ arg = <<>> /\ ret = <<>>
    /\ allServices = <<>> /\ filterStates = <<>>

ResolveFrame == <<suburbanServices, allCyclesWtt, query, passes, firstFlags, adj,
                  visited, chain, callSid, appended, CallFrame>>

\* for rc in self.rakecycles: one iteration.  An exception ends
\* generateRakeCycles with the cursor on the stub that raised.
ResolveStub ==
    /\ pc = "resolving"
    /\ cursor <= Len(rakecycles)
    /\ LET r == ResolveOne(rakecycles[cursor], allCyclesWtt, suburbanServices) IN
          /\ rakecycles' = [rakecycles EXCEPT ![cursor] = r.rc]
          /\ err' = r.err
          /\ pc' = IF r.err = "" THEN "resolving" ELSE "failed"
          /\ cursor' = IF r.err = "" THEN cursor + 1 ELSE cursor
    /\ UNCHANGED <<conflictingLinks, ResolveFrame>>

\* for rc in invalid: self.rakecycles.remove(rc), then validateRakeCycles,
\* which raises TypeError on a cycle whose servicePath is None.
RemoveAndValidate ==
    /\ pc = "resolving"
    /\ cursor > Len(rakecycles)
    /\ LET kept == SelectSeq(rakecycles, LAMBDA rc : rc.status # "INVALID")
           none == {i \in DOMAIN kept : kept[i].pathIsNone}
           upto == IF none = {} THEN kept
                   ELSE SubSeq(kept, 1, (CHOOSE i \in none : \A j \in none : i <= j) - 1)
           r == validateRakeCycles(upto, suburbanServices, conflictingLinks)
       IN  /\ rakecycles' = IF none = {} THEN r.rakecycles ELSE kept
           /\ conflictingLinks' = r.conflictingLinks
           /\ err' = IF none = {} THEN "" ELSE "TypeError"
           /\ pc' = IF none = {} THEN "validated" ELSE "failed"
    /\ UNCHANGED <<cursor, ResolveFrame>>

NextResolve == ResolveStub \/ RemoveAndValidate

SpecResolve == InitResolve /\ [][NextResolve]_vars

\* The stubs no chain starts with the first id of and that declare an id
\* no service carries.
UndefinedStubs ==
    {i \in DOMAIN before :
        /\ MatchingChains(before[i], allCyclesWtt, suburbanServices) = {}
        /\ before[i].undefinedIds # <<>>}

\* C20: for every stub that no resolved chain starts with the first declared
\* id of and whose undefinedIds is not empty, generateRakeCycles marks the
\* cycle INVALID, removes it from the active set, does not add it to
\* conflictingLinks and goes on with the other cycles without raising, for
\* any number of resolved chains, none included.
UndefinedIdsDropped ==
    \A i \in UndefinedStubs :
        /\ (pc = "failed" /\ err # "TypeError") => cursor # i
        /\ (pc = "resolving" /\ cursor > i) => rakecycles[i].status = "INVALID"
        /\ pc = "validated" =>
              /\ \A j \in DOMAIN rakecycles : rakecycles[j].id # i
              /\ \A j \in DOMAIN conflictingLinks : conflictingLinks[j][1].id # i

\* The stubs that declare registered ids only and that no chain starts with
\* the first declared id of.
UnmatchedStubs ==
    {i \in DOMAIN before :
        /\ MatchingChains(before[i], allCyclesWtt, suburbanServices) = {}
        /\ before[i].undefinedIds = <<>>}

\* The first declared id of the stub is the linkedTo target of a service.
IsLinkTarget(i) ==
    \E k \in DOMAIN suburbanServices :
        suburbanServices[k].linkedTo = before[i].serviceIds[1]

\* C21: for a stub with no undefined ids that no chain starts with the first
\* declared id of: when that id is the linkedTo target of no service the
\* resolution raises at that stub and does not go on; when it is the target
\* of a service, servicePath is rebuilt as the services of the declared ids
\* in declared order.
UnresolvableFirstId ==
    \A i \in UnmatchedStubs :
        /\ ~IsLinkTarget(i) => cursor <= i /\ pc # "validated"
        /\ (IsLinkTarget(i) /\ pc = "resolving" /\ cursor > i) =>
              /\ ~rakecycles[i].pathIsNone
              /\ PathIds(rakecycles[i].servicePath, suburbanServices)
                    = before[i].serviceIds

(***************************************************************************)
(* Further properties of the session                                       *)
(***************************************************************************)

\* The timetable with every visibility flag (cycle, service, event) set to b.
WithFlags(rcs, svs, b) ==
    Wtt([i \in DOMAIN rcs |-> [rcs[i] EXCEPT !.render = b]],
        [k \in DOMAIN svs |->
            [svs[k] EXCEPT
                !.render = b,
                !.events = [e \in DOMAIN svs[k].events |->
                               [svs[k].events[e] EXCEPT !.render = b]]]],
        "")

\* C22: the flags a filter pass leaves are a function of the graph and the
\* query only: the same pass started from the same graph with every flag
\* shown, or with every flag hidden, leaves the flags the pass has left,
\* whatever the passes before it (in any mode) had left.
ResetBeforeFilter ==
    pc = "filtered" =>
        \A b \in BOOLEAN :
            LET w == FilterPass(WithFlags(rakecycles, suburbanServices, b), query)
            IN  /\ w.err = ""
                /\ Flags(w.rakecycles, w.suburbanServices)
                      = Flags(rakecycles, suburbanServices)

\* A RAKELINK pass that follows a pass which had hidden a service the
\* RAKELINK pass shows.
ResetBeforeFilterWitness ==
    /\ pc = "filtered" /\ passes >= 2 /\ query.type = "RAKELINK"
    /\ \E k \in DOMAIN suburbanServices :
          /\ suburbanServices[k].render
          /\ ~before.suburbanServices[k].render
    /\ \E i \in DOMAIN rakecycles : ~rakecycles[i].render

\* C26: once generateRakeCycles has completed, and after any filter passes
\* that follow in any mode, every service whose visibility flag is true lies
\* on the servicePath of an active rake cycle: a service that lies only on
\* cycles discarded as INVALID or moved to conflictingLinks is never visible.
VisibleOnActivePath ==
    pc # "validated" =>
        \A k \in DOMAIN suburbanServices :
            suburbanServices[k].render => k \in OnPath(rakecycles)

\* The AC assignment: isAC of every active rake and needsACRake of every
\* service on an active path.
ACAssignment(rcs, svs) ==
    [isAC |-> [i \in DOMAIN rcs |-> rcs[i].isAC],
     needsACRake |-> [k \in OnPath(rcs) |-> svs[k].needsACRake]]

NoLine == "None"

\* rLineMarkerPattern.match(cell) and the 'O/L' test on the cells that
\* occur: T, TH, 6/T are fast markers, L, 5/L, O/L slow ones; 10/T has two
\* digits in front and is no marker, no more than a time or an empty cell.
LineMarker(cell) ==
    CASE cell \in {"T", "TH", "6/T", "t"} -> "THROUGH"
      [] cell \in {"L", "5/L", "O/L", "o/l"} -> "LOCAL"
      [] OTHER -> NoLine

\* TimeTableParser.extractLineMarkers: the classifications of the marker
\* cells of a column, in row order.
extractLineMarkers(cells) ==
    LET RECURSIVE Scan(_)
        Scan(r) == IF r > Len(cells) THEN <<>>
                   ELSE (IF LineMarker(cells[r]) = NoLine THEN <<>>
                         ELSE <<LineMarker(cells[r])>>) \o Scan(r + 1)
    IN  Scan(1)

\* self.suburbanServices.sort(key=lambda sv: (isinstance(id, int), id)): a
\* stable sort, text ids first, then the numbers in increasing order.
SortServices(svs) ==
    LET IdOrder == <<"ETY1", "ETY2", "9301", "93001", "93002", "93003", "93004",
                     "93009">>
        SortKey(k) == CHOOSE p \in DOMAIN IdOrder : IdOrder[p] = svs[k].serviceId[1]
        Ahead(k) == {j \in DOMAIN svs :
                        \/ SortKey(j) < SortKey(k)
                        \/ SortKey(j) = SortKey(k) /\ j < k}
    IN  [p \in DOMAIN svs |-> svs[CHOOSE k \in DOMAIN svs : Cardinality(Ahead(k)) = p - 1]]

\* The first speed label FAST or SLOW the summary gives for an id of the
\* service, NoLine when it gives none; entries in sheet order.
SummaryLine(svc, summary) ==
    LET RECURSIVE Entries(_)
        Entries(i) ==
            IF i > Len(summary) THEN <<>>
            ELSE [e \in DOMAIN summary[i].ids |->
                     [sid |-> summary[i].ids[e], speed |-> summary[i].speed[e]]]
                 \o Entries(i + 1)
        hits == SelectSeq(Entries(1),
                          LAMBDA x : /\ x.sid \in SeqToSet(svc.serviceId)
                                     /\ x.speed \in {"FAST", "SLOW"})
    IN  IF hits = <<>> THEN NoLine
        ELSE IF hits[1].speed = "FAST" THEN "THROUGH" ELSE "LOCAL"

\* TimeTableParser.parseRakeLinks: a label of the summary classifies only a
\* service whose line is still None.
parseRakeLinks(svs, summary) ==
    [allServices |->
        [k \in DOMAIN svs |->
            IF svs[k].line = NoLine
            THEN [svs[k] EXCEPT !.line = SummaryLine(svs[k], summary)]
            ELSE svs[k]],
     rakecycles |-> [i \in DOMAIN summary |-> StubCycle(i, summary[i].ids, svs)]]

\* TimeTableParser.isolateSuburbanServices
isolateSuburbanServices(rcs, svs) ==
    SelectSeq(svs, LAMBDA s :
        \E i \in DOMAIN rcs : SeqToSet(s.serviceId) \cap SeqToSet(rcs[i].serviceIds) # {})

\* The marker cells a service column can hold.
LineCells ==
    { <<>>, <<"T">>, <<"L", "O/L">>, <<"TH", "10/T", "6/T">>, <<"T", "5/L">> }

\* The time cells of the three columns.
PipelineCols ==
    << <<Row("DADAR", TimeText(9, 15, -1, TRUE), ""),
         Row("VIRAR", TimeText(9, 45, -1, TRUE), "")>>,
       <<Row("VIRAR", TimeText(10, 0, -1, TRUE), ""),
         Row("DADAR", TimeText(10, 30, -1, TRUE), "")>>,
       <<Row("DADAR", TimeText(11, 0, -1, TRUE), ""),
         Row("VIRAR", TimeText(11, 30, -1, TRUE), "")>> >>

\* The linkedTo cells of the three columns.
PipelineLinks == { <<"93002", NoId, NoId>>, <<"93002", "ETY1", NoId>> }

\* The link rows of the summary sheet with the speed labels two rows below;
\* 93009 is the id of no column.
Summaries ==
    { << [ids |-> <<"93001", "93002">>, speed |-> <<"FAST", "SLOW">>] >>,
      << [ids |-> <<"93001", "93002", "ETY1">>, speed |-> <<"SLOW", "None", "FAST">>] >>,
      << [ids |-> <<"93001", "93002">>, speed |-> <<"None", "FAST">>],
         [ids |-> <<"ETY1">>, speed |-> <<"SLOW">>] >>,
      << [ids |-> <<"93001", "93002", "ETY1">>, speed |-> <<"FAST", "FAST", "FAST">>],
         [ids |-> <<"ETY1">>, speed |-> <<"None">>] >>,
      << [ids |-> <<"93001", "93002">>, speed |-> <<"SLOW", "SLOW">>],
         [ids |-> <<"93009", "ETY1">>, speed |-> <<"None", "None">>] >> }

\* The two sheets are loaded and the stations registered; no service exists.
InitPipeline ==
    /\ \E cells \in [1..3 -> LineCells], to \in PipelineLinks, sm \in Summaries :
          arg = [grid |-> [k \in 1..3 |->
                              [serviceId |-> <<ServiceNames[k]>>, lineCells |-> cells[k],
                               linkedTo |-> to[k], rawServiceCol |-> PipelineCols[k]]],
                 summary |-> sm]
    /\ allServices = <<>>
    /\ suburbanServices = <<>>
    /\ rakecycles = <<>>
    /\ conflictingLinks = <<>>
    /\ allCyclesWtt = <<>>
    /\ query = DefaultQuery
    /\ pc = "register"
    /\ err = ""
    /\ passes = 0
    /\ firstFlags = <<>>
    /\ adj = <<>> /\ visited = {} /\ chain = <<>> /\ cursor = 1 /\ callSid = NoId
    /\ appended = <<>>
    /\ originalACStates = <<>> /\ ret = <<>> /\ before = <<>> /\ filterStates = <<>>

\* doRegisterServices: one iteration of the loop over the columns.  More
\* than one kind of marker reads Line.SEMI_FAST, a member the enumeration
\* Line does not have.
RegisterService ==
    /\ pc = "register"
    /\ cursor <= Len(arg.grid)
    /\ LET col == arg.grid[cursor]
           markers == extractLineMarkers(col.lineCells)
       IN  IF Cardinality(SeqToSet(markers)) > 1
           THEN /\ err' = "AttributeError"
                /\ pc' = "failed"
                /\ UNCHANGED allServices
           ELSE /\ allServices' =
                      Append(allServices,
                             [serviceId |-> col.serviceId,
                              direction |-> IF cursor % 2 = 1 THEN "UP" ELSE "DOWN",
                              needsACRake |-> FALSE, rakeSizeReq |-> RakeSizeReqDefault,
                              linkedTo |-> col.linkedTo,
                              rawServiceCol |-> col.rawServiceCol,
                              lineSegments |-> markers,
                              line |-> IF markers = <<>> THEN NoLine ELSE markers[1],
                              events |-> <<>>, render |-> TRUE])
                /\ UNCHANGED <<pc, err>>
    /\ cursor' = cursor + 1
    /\ UNCHANGED <<suburbanServices, rakecycles, conflictingLinks, allCyclesWtt, query,
                   passes, firstFlags, adj, visited, chain, callSid, appended,
                   originalACStates, arg, ret, before, filterStates>>

\* The rest of initialize_backend: parseWttSummaryFromFileObj and
\* isolateSuburbanServices.
ParseWttSummary ==
    /\ pc = "register"
    /\ cursor > Len(arg.grid)
    /\ LET p == parseRakeLinks(allServices, arg.summary) IN
          /\ allServices' = p.allServices
          /\ rakecycles' = p.rakecycles
          /\ suburbanServices' = isolateSuburbanServices(p.rakecycles, p.allServices)
    /\ pc' = "summarised"
    /\ UNCHANGED <<conflictingLinks, allCyclesWtt, query, err, passes, firstFlags, adj,
                   visited, chain, cursor, callSid, appended, originalACStates, arg,
                   ret, before, filterStates>>

\* generate_visualization, first call: generateRakeCycles sorts the services
\* and enters makeRakeCyclePathsSV.
StartGenerate ==
    /\ pc = "summarised"
    /\ suburbanServices' = SortServices(suburbanServices)
    /\ adj' = EmptyAdj(suburbanServices')
    /\ cursor' = 1
    /\ pc' = "build"
    /\ UNCHANGED <<rakecycles, conflictingLinks, allCyclesWtt, query, err, passes,
                   firstFlags, visited, chain, callSid, appended, CallFrame>>

\* makeRakeCyclePathsSV has returned: the loop over the stubs starts.
StartResolve ==
    /\ pc = "done"
    /\ before' = rakecycles
    /\ cursor' = 1
    /\ pc' = "resolving"
    /\ UNCHANGED <<suburbanServices, rakecycles, conflictingLinks, allCyclesWtt, query,
                   err, passes, firstFlags, adj, visited, chain, callSid, appended,
                   originalACStates, arg, ret, allServices, filterStates>>

\* validateRakeCycles has returned: the loop that creates the events starts.
StartEvents ==
    /\ pc = "validated"
    /\ cursor' = 1
    /\ pc' = "reconciled"
    /\ UNCHANGED <<suburbanServices, rakecycles, conflictingLinks, allCyclesWtt, query,
                   err, passes, firstFlags, adj, visited, chain, callSid, appended,
                   CallFrame>>

\* The end of generateRakeCycles (assignRakes), storeOriginalACStates and
\* the first filter pass.
FirstPass ==
    /\ pc = "timed"
    /\ \E qq \in SessionQueries :
          LET rcs == assignRakes(rakecycles, suburbanServices)
              w == FilterPass(Wtt(rcs, suburbanServices, ""), qq)
          IN  /\ query' = qq
              /\ originalACStates' = storeOriginalACStates(rcs, suburbanServices)
              /\ rakecycles' = w.rakecycles
              /\ suburbanServices' = w.suburbanServices
              /\ err' = w.err
    /\ pc' = "filtered"
    /\ passes' = 1
    /\ UNCHANGED <<conflictingLinks, allCyclesWtt, firstFlags, adj, visited, chain,
                   cursor, callSid, appended, arg, ret, before, allServices,
                   filterStates>>

NextPipeline ==
    \/ RegisterService \/ ParseWttSummary \/ StartGenerate
    \/ BuildLink \/ BuildDone \/ ScanKey \/ FollowChain \/ AppendChain \/ ScanDone
    \/ StartResolve \/ ResolveStub \/ RemoveAndValidate
    \/ StartEvents \/ GenerateEvents \/ EventsDone
    \/ FirstPass

SpecPipeline == InitPipeline /\ [][NextPipeline]_vars

(***************************************************************************)
(* Properties of the pipeline                                              *)
(***************************************************************************)

\* makeRakeCyclePathsSV (the LinkResolver) has started and the loop over the
\* stubs (the RakeCycleReconciler) has not.
LinkResolverRuns == pc \in {"build", "scan", "follow", "append", "done"}

\* C23: the stages run in the order StationRegistry, ServiceExtractor with
\* the creation of every service's StationEvent sequence, LinkResolver,
\* RakeCycleReconciler with the parsing of the summary stubs, FilterEngine,
\* none starting before the one before it has finished: while the
\* LinkResolver runs every service has its events already and no summary
\* stub has been parsed yet, and a filter pass finds every cycle reconciled.
StageOrder ==
    /\ LinkResolverRuns =>
          /\ \A k \in DOMAIN suburbanServices : suburbanServices[k].events # <<>>
          /\ rakecycles = <<>>
    /\ pc = "filtered" =>
          \A i \in DOMAIN rakecycles : ~rakecycles[i].pathIsNone

\* The kinds of line marker among the cells of grid column c: T is fast, L
\* and O/L are slow, with or without a platform digit or a trailing H.
MarkerKinds(c) ==
    {IF cell \in {"T", "TH", "6/T"} THEN "THROUGH" ELSE "LOCAL" :
        cell \in SeqToSet(arg.grid[c].lineCells) \cap
                 {"T", "TH", "6/T", "L", "5/L", "O/L"}}

\* C24: a column whose markers are all of one kind gives its service that
\* classification; a column with more than one kind gives a mixed value and
\* the extraction of that service and of the remaining columns completes
\* normally; a classification set from the grid markers is never
\* overwritten by the FAST/SLOW label of the summary.
LineClassification ==
    /\ err # "AttributeError"
    /\ pc # "register" => Len(allServices) = Len(arg.grid)
    /\ \A c \in DOMAIN allServices :
          /\ Cardinality(MarkerKinds(c)) = 1 => allServices[c].line \in MarkerKinds(c)
          /\ Cardinality(MarkerKinds(c)) > 1 =>
                allServices[c].line \notin {NoLine, "THROUGH", "LOCAL"}

(***************************************************************************)
(* Further properties of the link resolver                                 *)
(***************************************************************************)

\* The number of places service k takes in the chains produced.
Places(k) ==
    Cardinality({p \in (DOMAIN allCyclesWtt) \X (1..MaxAppends) :
                    /\ p[2] <= Len(allCyclesWtt[p[1]])
                    /\ allCyclesWtt[p[1]][p[2]] = k})

\* C25: every Service object is in at most one chain produced by
\* makeRakeCyclePathsSV and at most once in that chain, also when a service
\* is registered under several ids and a linkedTo names an id that is not
\* its first.
ServiceInOneChain ==
    \A k \in DOMAIN suburbanServices : Places(k) <= 1

\* C27: when generateRakeCycles has returned normally every active cycle has
\* a servicePath that is a list and is not empty, every service on it has at
\* least one event, the cycle has a rake, and no two active cycles have the
\* same Rake.
ActiveCyclesComplete ==
    pc = "filtered" =>
        \A i \in DOMAIN rakecycles :
            /\ ~rakecycles[i].pathIsNone
            /\ rakecycles[i].servicePath # <<>>
            /\ \A k \in SeqToSet(rakecycles[i].servicePath) :
                  suburbanServices[k].events # <<>>
            /\ rakecycles[i].hasRake
            /\ \A j \in DOMAIN rakecycles :
                  rakecycles[j].rakeId = rakecycles[i].rakeId => j = i

\* generateRakeCycles has returned with two active cycles, the path of one
\* being the single service ETY1 that fixPath has rebuilt.
ActiveCyclesCompleteWitness ==
    /\ pc = "filtered"
    /\ Len(rakecycles) = 2
    /\ \E i \in DOMAIN rakecycles :
          PathIds(rakecycles[i].servicePath, suburbanServices) = <<"ETY1">>

(***************************************************************************)
(* SpecQuery: the filter tabs of a session: Gardi.switch_filter_mode and   *)
(* the callbacks that edit a field of the query (gardi/gardi.py).          *)
(***************************************************************************)

\* Calls made in one session.
MaxCalls == 4

\* The dictionary switch_filter_mode saves for the mode it leaves.
QueryFields(qq) ==
    [startStation |-> qq.startStation, endStation |-> qq.endStation,
     passingThrough |-> qq.passingThrough, inTimePeriod |-> qq.inTimePeriod,
     inDirection |-> qq.inDirection]

\* The if/elif chain on active_tab: a tab of another name leaves the type.
TabType(tab, type) ==
    CASE tab = "tab-rakelink" -> "RAKELINK"
      [] tab = "tab-service" -> "SERVICE"
      [] tab = "tab-station" -> "STATION"
      [] OTHER -> type

\* saved = self.filterStates.get(self.query.type, {}) and the five
\* saved.get(...) with their defaults.
RestoreFields(qq, saved) ==
    LET f == IF saved = <<>> THEN QueryFields(DefaultQuery) ELSE saved IN
    [qq EXCEPT !.startStation = f.startStation, !.endStation = f.endStation,
               !.passingThrough = f.passingThrough, !.inTimePeriod = f.inTimePeriod,
               !.inDirection = f.inDirection]

\* A switch that restores the target mode without saving the mode it leaves.
switch_filter_mode_unsaved(qq, fs, tab) ==
    LET type == TabType(tab, qq.type) IN
    [query |-> RestoreFields([qq EXCEPT !.type = type], fs[type]), filterStates |-> fs]

\* Gardi.switch_filter_mode
switch_filter_mode(qq, fs, tab) ==
    LET saved == [fs EXCEPT ![qq.type] = QueryFields(qq)]
        type == TabType(tab, qq.type)
    IN  [query |-> RestoreFields([qq EXCEPT !.type = type], saved[type]),
         filterStates |-> saved]

\* Gardi.__init__: the query of the rake-link tab and nothing saved; before
\* holds the query as it was at the last switch and, for every mode, the
\* fields it had when it was last left.
InitQuery ==
    /\ query = DefaultQuery
    /\ filterStates = [t \in {"RAKELINK", "SERVICE", "STATION"} |-> <<>>]
    /\ before = [query |-> query, left |-> filterStates]
    /\ pc = "idle"
    /\ passes = 0
    /\ arg = <<>>
    /\ suburbanServices = <<>>
    /\ rakecycles = <<>>
    /\ conflictingLinks = <<>>
    /\ allCyclesWtt = <<>>
    /\ err = ""
    /\ firstFlags = <<>>
    /\ LinkIdle
    /\ originalACStates = <<>> /\ ret = <<>> /\ allServices = <<>>

\* The callback of the tab bar: switch_filter_mode(active_tab).
SwitchFilterMode ==
    /\ passes < MaxCalls
    /\ \E tab \in {"tab-rakelink", "tab-service", "tab-station", "tab-export"} :
          LET s == switch_filter_mode(query, filterStates, tab) IN
          /\ arg' = tab
          /\ query' = s.query
          /\ filterStates' = s.filterStates
    /\ before' = [query |-> query,
                  left |-> [before.left EXCEPT ![query.type] = QueryFields(query)]]
    /\ pc' = "switched"
    /\ passes' = passes + 1
    /\ UNCHANGED <<suburbanServices, rakecycles, conflictingLinks, allCyclesWtt, err,
                   firstFlags, adj, visited, chain, cursor, callSid, appended,
                   originalACStates, ret, allServices>>

\* update_query_field and the direction selector: setattr(self.query, field,
\* value) with the value of the control.
UpdateQueryField ==
    /\ passes < MaxCalls
    /\ \/ \E v \in {NoStation, "DADAR"} : query' = [query EXCEPT !.startStation = v]
       \/ \E v \in {NoStation, "VIRAR"} : query' = [query EXCEPT !.endStation = v]
       \/ \E v \in {<<>>, <<"DADAR">>} : query' = [query EXCEPT !.passingThrough = v]
       \/ \E v \in {<<165, 1605>>, <<500, 600>>} :
             query' = [query EXCEPT !.inTimePeriod = v]
       \/ \E v \in {<<>>, <<"UP">>} : query' = [query EXCEPT !.inDirection = v]
    /\ pc' = "edited"
    /\ passes' = passes + 1
    /\ UNCHANGED <<suburbanServices, rakecycles, conflictingLinks, allCyclesWtt, err,
                   firstFlags, adj, visited, chain, cursor, callSid, appended,
                   CallFrame>>

NextQuery == SwitchFilterMode \/ UpdateQueryField

SpecQuery == InitQuery /\ [][NextQuery]_vars

(***************************************************************************)
(* Properties of the filter tabs                                           *)
(***************************************************************************)

\* The five fields of the query that belong to a mode.
FiveFields(qq) ==
    <<qq.startStation, qq.endStation, qq.passingThrough, qq.inTimePeriod,
      qq.inDirection>>

\* C29: query.type is always one of the three modes; a switch to an
\* unrecognised tab leaves the type and the five fields as they are; a
\* switch to another mode gives the five fields the values that mode had
\* when it was last left, whatever was edited since, and None, None, [],
\* (165, 1605), None when it was never left.
PerModeQueryState ==
    /\ query.type \in {"RAKELINK", "SERVICE", "STATION"}
    /\ pc = "switched" =>
          LET target == CASE arg = "tab-rakelink" -> "RAKELINK"
                          [] arg = "tab-service" -> "SERVICE"
                          [] arg = "tab-station" -> "STATION"
                          [] OTHER -> "none"
          IN  IF target = "none" THEN query = before.query
              ELSE /\ query.type = target
                   /\ query.ac = before.query.ac
                   /\ FiveFields(query) =
                         IF target = before.query.type THEN FiveFields(before.query)
                         ELSE IF before.left[target] = <<>>
                              THEN <<NoStation, NoStation, <<>>, <<165, 1605>>, <<>> >>
                         ELSE FiveFields(before.left[target])

\* Back on the rake-link tab after an edit made there, a switch to another
\* tab and an edit made on that tab: the first edit is restored.
PerModeQueryStateWitness ==
    /\ pc = "switched" /\ passes = 4
    /\ query.type = "RAKELINK" /\ before.query.type = "SERVICE"
    /\ query.startStation = "DADAR"
    /\ before.query.startStation = NoStation /\ before.query.endStation = "VIRAR"
====
